---- MODULE Spec2Model ----
(***************************************************************************)
(* ClimateSense: the run orchestrator of src/run_agent_loop.py, its        *)
(* classifiers, the Memory Store file and the Location Directive file,     *)
(* together with the dashboard's writer of the directive                   *)
(* (src/dashboard.py).                                                     *)
(*                                                                         *)
(* Representation.                                                         *)
(*  - A Python str is a text: a sequence of tokens, where ":" and " " are  *)
(*    tokens of their own, so that str.split(':') and str.strip() are      *)
(*    computed on the text.  Str("HIGH") is the one-token text.            *)
(*  - A Python value that may be a number, a string or None is a record    *)
(*    [t, i, s] (PyInt, PyStr, PyNone); a dict is a function from its keys *)
(*    to such values, a missing key being PyNone.                          *)
(*  - A file is [st, data]: absent, ok (parseable JSON) or corrupt         *)
(*    (truncated or partially written).  What is stored in a file is the   *)
(*    JSON form of a value (JsonDump), what is read is parsed (JsonLoad).  *)
(*  - Temperatures are in tenths of a degree Celsius.                      *)
(***************************************************************************)
EXTENDS Integers, Sequences, FiniteSets, TLC

VARIABLES
    pc,                \* position of the orchestrator in its loop
    runs,              \* number of runs started (the clock of run_timestamp)
    run_timestamp,     \* timestamp of the current run
    CITY_NAME,         \* location read at the start of the run
    control_file,      \* the Location Directive file
    writer,            \* the dashboard's write_control_file in progress
    writes,            \* number of directive writes started
    memory_file,       \* the Memory Store file
    weather_json,      \* Measurement Snapshot of the run
    forecast_json,     \* Daily Forecast Summaries of the run
    forecast_list,     \* Forecast Samples of the run, as fetched
    raw_aqi_data,      \* raw air-quality reading of the run
    advanced_fetch_data, \* tomorrow's air-quality index of the run
    risk_report_dict,  \* the Risk Report of the run
    heat_risk_report,  \* output of the Heat Stress Classifier
    air_quality_report, \* output of the Air Quality Interpreter
    final_risk_result, \* text returned by agent_11_alert_prioritizer
    final_level_default, \* numeric floor computed by agent_11
    action_list,       \* recommendations text
    log_entry,         \* Historical Record of the run
    memory,            \* save_to_memory_bank's in-memory copy of the store
    saved,             \* history: the entries whose save reported success
    save_report,       \* what save_to_memory_bank printed last
    dispatched,        \* PDF/email collaborators invoked in this run
    polls_left,        \* check intervals left in smart_sleep_and_watch
    change_detected,   \* what the last completed wait returned
    llm_calls,         \* history: the enrichment calls of the run, in order
    trend_prompt,      \* history: what the Trend Analyzer put into its prompt
    wait               \* history: the directive when the wait began, and
                       \* whether it has differed from that since

vars == <<pc, runs, run_timestamp, CITY_NAME, control_file, writer, writes,
          memory_file, weather_json, forecast_json, forecast_list,
          raw_aqi_data, advanced_fetch_data, risk_report_dict, heat_risk_report,
          air_quality_report, final_risk_result, final_level_default,
          action_list, log_entry, memory, saved, save_report, dispatched,
          polls_left, change_detected, llm_calls, trend_prompt, wait>>

(***************************************************************************)
(* Bounds of the model.                                                    *)
(***************************************************************************)
MaxRuns == 2        \* runs of the loop explored
MaxWrites == 2      \* directive writes by the dashboard explored
SleepPolls == 2     \* LOOP_INTERVAL_SECONDS / LOCATION_CHECK_INTERVAL_SECONDS, scaled down

(***************************************************************************)
(* Python values.                                                          *)
(***************************************************************************)
Str(x) == <<x>>

PyInt(n) == [t |-> "int", i |-> n, s |-> <<>>]
PyStr(txt) == [t |-> "str", i |-> 0, s |-> txt]
PyNone == [t |-> "none", i |-> 0, s |-> <<>>]

IsNumber(v) == v.t = "int"

(***************************************************************************)
(* Texts: sequences of tokens.                                             *)
(***************************************************************************)
IsSpace(tok) == tok \in {" ", "\n"}

RECURSIVE LStrip(_)
LStrip(txt) ==
    IF txt = <<>> THEN <<>>
    ELSE IF IsSpace(Head(txt)) THEN LStrip(Tail(txt)) ELSE txt

RECURSIVE RStrip(_)
RStrip(txt) ==
    IF txt = <<>> THEN <<>>
    ELSE IF IsSpace(txt[Len(txt)]) THEN RStrip(SubSeq(txt, 1, Len(txt) - 1))
    ELSE txt

\* str.strip()
Strip(txt) == RStrip(LStrip(txt))

\* index of the first ':' of txt, 0 if there is none
FirstColon(txt) ==
    IF \E k \in 1..Len(txt) : txt[k] = ":"
    THEN CHOOSE k \in 1..Len(txt) :
            txt[k] = ":" /\ \A j \in 1..(k - 1) : txt[j] # ":"
    ELSE 0

\* txt.split(':')[0]
SplitHead(txt) ==
    IF FirstColon(txt) = 0 THEN txt ELSE SubSeq(txt, 1, FirstColon(txt) - 1)

\* txt.split(':', 1)[-1]
SplitRest(txt) ==
    IF FirstColon(txt) = 0 THEN txt
    ELSE SubSeq(txt, FirstColon(txt) + 1, Len(txt))

\* str.lower(), on the tokens of the model that have upper-case letters
LowerToken(tok) ==
    CASE tok = "Kerala,IN" -> "kerala,in"
      [] tok = "Paris,FR" -> "paris,fr"
      [] OTHER -> tok

Lower(txt) == [k \in DOMAIN txt |-> LowerToken(txt[k])]

(***************************************************************************)
(* Files and JSON.                                                         *)
(***************************************************************************)
\* json.dump of a Python value: numbers as number literals, strings quoted
JsonDump(v) ==
    CASE v.t = "int" -> [j |-> "number", lit |-> v.i, str |-> <<>>]
      [] v.t = "str" -> [j |-> "string", lit |-> 0, str |-> v.s]
      [] OTHER -> [j |-> "null", lit |-> 0, str |-> <<>>]

\* json.load of a JSON value
JsonLoad(x) ==
    CASE x.j = "number" -> PyInt(x.lit)
      [] x.j = "string" -> PyStr(x.str)
      [] OTHER -> PyNone

AbsentFile == [st |-> "absent", data |-> <<>>]
CorruptFile == [st |-> "corrupt", data |-> <<>>]
OkFile(d) == [st |-> "ok", data |-> d]

(***************************************************************************)
(* Location Directive.                                                     *)
(***************************************************************************)
DEFAULT_LOCATION == Str("Kerala,IN")

\* the locations the dashboard writes (a search text, never empty)
Locations == {Str("Kerala,IN"), Str("kerala,in"), Str("Paris,FR")}

\* content of the control file: {"location": loc}
ControlContent(loc) == <<JsonDump(PyStr(loc))>>

\* variant: the location is returned as read, empty or not
get_target_location_as_read(file) ==
    IF file.st = "absent" THEN DEFAULT_LOCATION
    ELSE IF file.st = "corrupt" THEN DEFAULT_LOCATION
    ELSE IF file.data = <<>> THEN DEFAULT_LOCATION
    ELSE JsonLoad(file.data[1]).s

\* get_target_location(); a file that parses holds the value at "location",
\* or nothing when its content is not a dict (data.get raises, and the
\* handler returns the default)
get_target_location(file) ==
    IF file.st = "absent" THEN DEFAULT_LOCATION
    ELSE IF file.st = "corrupt" THEN DEFAULT_LOCATION
    ELSE IF file.data = <<>> THEN DEFAULT_LOCATION
    ELSE LET location == JsonLoad(file.data[1])
         IN  IF location.t = "str" /\ location.s # <<>> THEN location.s
             ELSE DEFAULT_LOCATION

(***************************************************************************)
(* Measurement Snapshot and Risk Classifier.                               *)
(* A snapshot is [present, wind, weather, description, temp, humidity]:    *)
(* wind, temp, humidity are Python values (PyNone when the field or its    *)
(* section is missing), weather is "missing", "empty" or "ok" (the list),  *)
(* description is the list of words of weather[0].description.             *)
(***************************************************************************)
NoSnapshot ==
    [present |-> FALSE, wind |-> PyNone, weather |-> "missing",
     description |-> <<>>, temp |-> PyNone, humidity |-> PyNone]

Snapshot(w, d, tc, h) ==
    [present |-> TRUE, wind |-> PyInt(w), weather |-> "ok",
     description |-> d, temp |-> PyInt(tc), humidity |-> h]

\* dict.get(key, default)
Get(v, default) == IF v = PyNone THEN default ELSE v

\* "word" in description
Contains(description, word) ==
    \E k \in 1..Len(description) : description[k] = word

\* variant: the wind rules are tried before the rules on the description
agent_2_risk_classifier_wind_first(weather_data) ==
    LET wind_speed == Get(weather_data.wind, PyInt(0)).i
        description == IF weather_data.weather = "ok"
                       THEN weather_data.description ELSE Str("unknown")
        temp == Get(weather_data.temp, PyInt(0))
        humidity == Get(weather_data.humidity, PyStr(Str("N/A")))
        verdict ==
            IF wind_speed > 20
            THEN <<Str("HIGH"), Str("Extreme wind speed detected.")>>
            ELSE IF wind_speed >= 15
            THEN <<Str("MODERATE"), Str("High wind speed detected.")>>
            ELSE IF Contains(description, "thunderstorm") \/ Contains(description, "squalls")
            THEN <<Str("HIGH"), Str("Active thunderstorm or squalls reported.")>>
            ELSE IF Contains(description, "rain")
            THEN <<Str("MODERATE"), Str("Rain reported. Monitor conditions.")>>
            ELSE <<Str("LOW"), Str("Conditions are calm.")>>
    IN  [raised |-> (weather_data.weather = "empty"),
         primary_level |-> verdict[1],
         reasoning |-> verdict[2],
         temp_c |-> temp,
         wind_speed_ms |-> wind_speed,
         description |-> description,
         humidity |-> humidity]

\* agent_2_risk_classifier(weather_data); raised = IndexError of [0]
agent_2_risk_classifier(weather_data) ==
    LET wind_speed == Get(weather_data.wind, PyInt(0)).i
        description == IF weather_data.weather = "ok"
                       THEN weather_data.description ELSE Str("unknown")
        temp == Get(weather_data.temp, PyInt(0))
        humidity == Get(weather_data.humidity, PyStr(Str("N/A")))
        verdict ==
            IF Contains(description, "thunderstorm") \/ Contains(description, "squalls")
            THEN <<Str("HIGH"), Str("Active thunderstorm or squalls reported.")>>
            ELSE IF Contains(description, "rain") /\ wind_speed > 15
            THEN <<Str("HIGH"), Str("Heavy rain combined with high wind speed.")>>
            ELSE IF Contains(description, "rain")
            THEN <<Str("MODERATE"), Str("Rain reported. Monitor conditions.")>>
            ELSE IF wind_speed > 20
            THEN <<Str("HIGH"), Str("Extreme wind speed detected.")>>
            ELSE IF wind_speed > 15
            THEN <<Str("MODERATE"), Str("High wind speed detected.")>>
            ELSE <<Str("LOW"), Str("Conditions are calm.")>>
    IN  [raised |-> (weather_data.weather = "empty"),
         primary_level |-> verdict[1],
         reasoning |-> verdict[2],
         temp_c |-> temp,
         wind_speed_ms |-> wind_speed,
         description |-> description,
         humidity |-> humidity]

(***************************************************************************)
(* Heat Stress Classifier.  The NOAA regression is evaluated exactly, on   *)
(* naturals of several limbs of base 10^4 (least significant first): with  *)
(* F = 50 * T_f and the coefficients times 10^8, HI * 25 * 10^10 is the    *)
(* difference of HeatPos and HeatNeg.                                      *)
(***************************************************************************)
Base == 10000

RECURSIVE BigMul(_, _, _)
BigMul(b, k, carry) ==
    IF b = <<>>
    THEN IF carry = 0 THEN <<>>
         ELSE <<carry % Base>> \o BigMul(<<>>, k, carry \div Base)
    ELSE LET v == Head(b) * k + carry
         IN  <<v % Base>> \o BigMul(Tail(b), k, v \div Base)

RECURSIVE BigAdd(_, _, _)
BigAdd(a, b, carry) ==
    IF a = <<>> /\ b = <<>>
    THEN IF carry = 0 THEN <<>> ELSE <<carry>>
    ELSE LET x == IF a = <<>> THEN 0 ELSE Head(a)
             y == IF b = <<>> THEN 0 ELSE Head(b)
             v == x + y + carry
         IN  <<v % Base>> \o BigAdd(IF a = <<>> THEN <<>> ELSE Tail(a),
                                    IF b = <<>> THEN <<>> ELSE Tail(b),
                                    v \div Base)

\* -1, 0, 1 as a < b, a = b, a > b
RECURSIVE BigCmp(_, _)
BigCmp(a, b) ==
    IF a = <<>> /\ b = <<>> THEN 0
    ELSE LET x == IF a = <<>> THEN 0 ELSE Head(a)
             y == IF b = <<>> THEN 0 ELSE Head(b)
             rest == BigCmp(IF a = <<>> THEN <<>> ELSE Tail(a),
                            IF b = <<>> THEN <<>> ELSE Tail(b))
         IN  IF rest # 0 THEN rest
             ELSE IF x > y THEN 1 ELSE IF x < y THEN -1 ELSE 0

Times(b, k) == BigMul(b, k, 0)
Plus(a, b) == BigAdd(a, b, 0)

\* sum of the positive terms of the regression, times 25 * 10^10
HeatPos(F, R) ==
    Plus(Plus(Times(Times(<<1523, 490, 2>>, F), 50),            \* 2.04901523 T
              Times(Times(<<3127, 1433, 10>>, R), 2500)),       \* 10.14333127 R
         Plus(Times(Times(Times(<<2874, 12>>, F), F), R),       \* .00122874 T^2 R
              Times(Times(Times(Times(<<5282, 8>>, F), R), R), 50)))  \* .00085282 T R^2

\* sum of the negative terms of the regression, times 25 * 10^10
HeatNeg(F, R) ==
    Plus(Plus(Times(<<0, 3790, 42>>, 2500),                     \* 42.379
              Times(Times(Times(<<5541, 2247>>, F), R), 50)),   \* .22475541 T R
         Plus(Plus(Times(Times(<<3783, 68>>, F), F),            \* .00683783 T^2
                   Times(Times(Times(<<1717, 548>>, R), R), 2500)),  \* .05481717 R^2
              Times(Times(Times(Times(<<199>>, F), F), R), R)))  \* .00000199 T^2 R^2

\* HI_c >= y/20 degrees Celsius, for the regression's HI at (F/50, R)
HeatAtLeast(F, R, y) ==
    BigCmp(HeatPos(F, R),
           Plus(HeatNeg(F, R), <<0, 0>> \o Times(<<3200 + 9 * y>>, 25))) >= 0

\* range of heat indexes (tenths of a degree) searched by the rounding
HeatIndexMax == 2500

\* round(HI_c, 1) in tenths, for the regression's HI
HeatRound(F, R) ==
    CHOOSE r \in 0..HeatIndexMax :
        HeatAtLeast(F, R, 2 * r - 1) /\ ~HeatAtLeast(F, R, 2 * r + 1)

\* variant: only the temperature is checked, the humidity is not used
agent_2_7_checks_temperature_only(temp_c, humidity) ==
    IF ~IsNumber(temp_c)
    THEN [heat_index_c |-> PyStr(Str("N/A")), heat_risk |-> Str("LOW"),
          warning |-> Str("Heat calculation skipped due to missing temperature or humidity data.")]
    ELSE [heat_index_c |-> PyInt(temp_c.i), heat_risk |-> Str("LOW"),
          warning |-> Str("No heat risk.")]

\* variant: below 80 F the index is left in Fahrenheit
agent_2_7_keeps_fahrenheit(temp_c, humidity) ==
    IF ~IsNumber(temp_c) \/ ~IsNumber(humidity)
    THEN [heat_index_c |-> PyStr(Str("N/A")), heat_risk |-> Str("LOW"),
          warning |-> Str("Heat calculation skipped due to missing temperature or humidity data.")]
    ELSE LET F == 9 * temp_c.i + 1600
             R == humidity.i
         IN  IF F < 4000
             THEN [heat_index_c |-> PyInt(F \div 5), heat_risk |-> Str("LOW"),
                   warning |-> Str("No heat risk.")]
             ELSE [heat_index_c |-> PyInt(HeatRound(F, R)),
                   heat_risk |-> IF HeatAtLeast(F, R, 800) THEN Str("EXTREME")
                                 ELSE IF HeatAtLeast(F, R, 640) THEN Str("HIGH")
                                 ELSE IF HeatAtLeast(F, R, 540) THEN Str("MODERATE")
                                 ELSE Str("LOW"),
                   warning |-> Str("No heat risk.")]

\* agent_2_7_heat_classifier(temp_c, humidity)
agent_2_7_heat_classifier(temp_c, humidity) ==
    IF ~IsNumber(temp_c) \/ ~IsNumber(humidity)
    THEN [heat_index_c |-> PyStr(Str("N/A")), heat_risk |-> Str("LOW"),
          warning |-> Str("Heat calculation skipped due to missing temperature or humidity data.")]
    ELSE LET F == 9 * temp_c.i + 1600       \* 50 * T_f
             R == humidity.i
         IN  IF F < 4000                     \* T_f < 80
             THEN [heat_index_c |-> PyInt(temp_c.i), heat_risk |-> Str("LOW"),
                   warning |-> Str("No heat risk.")]
             ELSE IF HeatAtLeast(F, R, 800)
             THEN [heat_index_c |-> PyInt(HeatRound(F, R)), heat_risk |-> Str("EXTREME"),
                   warning |-> Str("Danger: Heat stroke highly likely.")]
             ELSE IF HeatAtLeast(F, R, 640)
             THEN [heat_index_c |-> PyInt(HeatRound(F, R)), heat_risk |-> Str("HIGH"),
                   warning |-> Str("Extreme Caution: Heat cramps or heat exhaustion possible.")]
             ELSE IF HeatAtLeast(F, R, 540)
             THEN [heat_index_c |-> PyInt(HeatRound(F, R)), heat_risk |-> Str("MODERATE"),
                   warning |-> Str("Caution: Fatigue possible with prolonged exposure.")]
             ELSE [heat_index_c |-> PyInt(HeatRound(F, R)), heat_risk |-> Str("LOW"),
                   warning |-> Str("No heat risk.")]

(***************************************************************************)
(* Enrichment service: a call fails or returns a text.                     *)
(***************************************************************************)
Failed == [ok |-> FALSE, text |-> <<>>]
Said(txt) == [ok |-> TRUE, text |-> txt]

(***************************************************************************)
(* Air Quality Interpreter.  Raw air-quality data is PyNone (fetch failed) *)
(* or the number at main.aqi; advanced data is tomorrow's index or "N/A".  *)
(***************************************************************************)
\* variant: a failed enrichment call puts the placeholder in place of the index
agent_2_5_placeholder_on_failure(aqi_data, advanced_data, llm) ==
    IF aqi_data = PyNone \/ ~llm.ok
    THEN [aqi |-> PyStr(Str("N/A")),
          analysis |-> IF aqi_data = PyNone THEN Str("No data")
                       ELSE Str("Error analyzing air quality."),
          tomorrow_aqi |-> PyStr(Str("N/A"))]
    ELSE [aqi |-> aqi_data,
          analysis |-> Strip(llm.text),
          tomorrow_aqi |-> advanced_data]

\* agent_2_5_air_quality_analyzer(aqi_data, advanced_data)
agent_2_5_air_quality_analyzer(aqi_data, advanced_data, llm) ==
    IF aqi_data = PyNone
    THEN [aqi |-> PyStr(Str("N/A")), analysis |-> Str("No data"),
          tomorrow_aqi |-> PyStr(Str("N/A"))]
    ELSE [aqi |-> aqi_data,
          analysis |-> IF llm.ok THEN Strip(llm.text)
                       ELSE Str("Error analyzing air quality."),
          tomorrow_aqi |-> advanced_data]

(***************************************************************************)
(* Final Priority Resolver.                                                *)
(***************************************************************************)
\* risk_map.get(level, 1)
risk_map(level) ==
    CASE level = Str("EXTREME") -> 5
      [] level = Str("HIGH") -> 4
      [] level = Str("MODERATE") -> 3
      [] level = Str("LOW") -> 2
      [] level = Str("NONE") -> 1
      [] OTHER -> 1

\* final_risk_map.get(priority_level, "LOW")
final_risk_map(priority_level) ==
    CASE priority_level = 5 -> Str("CRITICAL")
      [] priority_level = 4 -> Str("HIGH")
      [] priority_level = 3 -> Str("MODERATE")
      [] priority_level = 2 -> Str("LOW")
      [] priority_level = 1 -> Str("LOW")
      [] OTHER -> Str("LOW")

\* variant: the air quality score is left out of the maximum
Max3WithoutAqi(a, b, c) ==
    IF a >= b THEN a ELSE b

Max3(a, b, c) ==
    IF a >= b /\ a >= c THEN a ELSE IF b >= c THEN b ELSE c

\* max(primary_score, heat_score, aqi_score) raises TypeError on a str score
PriorityRaises(risk_reports) == ~IsNumber(risk_reports.air_quality_report.aqi)

\* final_level_default of agent_11_alert_prioritizer
PriorityFloor(risk_reports) ==
    LET primary_score == risk_map(risk_reports.primary_level)
        heat_score == risk_map(risk_reports.heat_risk)
        aqi_score == risk_reports.air_quality_report.aqi.i
    IN  final_risk_map(Max3(primary_score, heat_score, aqi_score))

\* variant: the except branch answers LOW instead of final_level_default
agent_11_fallback_low(risk_reports, llm) ==
    IF llm.ok THEN Strip(llm.text)
    ELSE Str("LOW") \o
         <<":", " ", "Error determining final priority. Defaulting to highest local risk.">>

\* agent_11_alert_prioritizer(risk_reports), where it does not raise
agent_11_alert_prioritizer(risk_reports, llm) ==
    IF llm.ok THEN Strip(llm.text)
    ELSE PriorityFloor(risk_reports) \o
         <<":", " ", "Error determining final priority. Defaulting to highest local risk.">>

(***************************************************************************)
(* Historical Records and the Memory Store file.  A record is kept flat:   *)
(* the fields of risk_report and air_quality_report next to the others.    *)
(***************************************************************************)
\* datetime.now().isoformat() at clock reading n
IsoFormat(n) == <<"2025-11-01", "T", ToString(n)>>

JsonDumpEntry(e) == [k \in DOMAIN e |-> JsonDump(e[k])]
JsonLoadEntry(x) == [k \in DOMAIN x |-> JsonLoad(x[k])]

\* json.dump(memory, f) and json.load(f) of a list of records
JsonDumpStore(m) == [k \in DOMAIN m |-> JsonDumpEntry(m[k])]
JsonLoadStore(d) == [k \in DOMAIN d |-> JsonLoadEntry(d[k])]

(***************************************************************************)
(* Trend Analyzer.                                                         *)
(***************************************************************************)
TREND_WINDOW == 5

\* variant: the first n records are taken, not the last
FirstN(q, n) == IF Len(q) <= n THEN q ELSE SubSeq(q, 1, n)

LastN(q, n) == IF Len(q) <= n THEN q ELSE SubSeq(q, Len(q) - n + 1, Len(q))

\* ts.split('T')[1] raises IndexError when ts has no 'T'
HasTime(ts) == ts.t = "str" /\ \E k \in 1..Len(ts.s) : ts.s[k] = "T"

\* recent_reports of agent_5_trend_forecaster, for a parseable store
RecentReports(file, city_name) ==
    LET history == JsonLoadStore(file.data)
        city_history ==
            SelectSeq(history,
                      LAMBDA report :
                          Lower(Get(report.city, PyStr(<<>>)).s) = Lower(city_name))
    IN  LastN(city_history, TREND_WINDOW)

\* index of the first occurrence of a token in txt, 0 if there is none
FirstOf(txt, tok) ==
    IF \E k \in 1..Len(txt) : txt[k] = tok
    THEN CHOOSE k \in 1..Len(txt) :
            txt[k] = tok /\ \A j \in 1..(k - 1) : txt[j] # tok
    ELSE 0

\* txt.split(tok)[0]
Before(txt, tok) ==
    IF FirstOf(txt, tok) = 0 THEN txt ELSE SubSeq(txt, 1, FirstOf(txt, tok) - 1)

\* ts.split('T')[1].split('.')[0], for a ts that has a 'T'
TimeOf(ts) ==
    LET rest == SubSeq(ts, FirstOf(ts, "T") + 1, Len(ts))
    IN  Before(Before(rest, "T"), ".")

\* the ts, lvl and aqi of one line of past_data_summary
SummaryLine(report) ==
    [time |-> TimeOf(Get(report.timestamp, PyStr(Str("N/A"))).s),
     lvl |-> Get(report.final_level,
                 Get(report.final_risk_level, PyStr(Str("N/A")))),
     aqi |-> Get(report.aqi, PyStr(Str("N/A")))]

\* no prompt was built
NoPrompt == [history |-> <<>>, newest |-> [lvl |-> <<>>, aqi |-> PyNone]]

\* what the prompt holds: past_data_summary, then the newest reading
TrendPrompt(recent_reports, current_risk_report) ==
    [history |-> [k \in 1..Len(recent_reports) |-> SummaryLine(recent_reports[k])],
     newest |-> [lvl |-> current_risk_report.final_level,
                 aqi |-> Get(current_risk_report.air_quality_report.aqi,
                             PyStr(Str("N/A")))]]

\* agent_5_trend_forecaster(current_risk_report, memory_file, city_name)
agent_5_trend_forecaster(current_risk_report, file, city_name, llm) ==
    IF file.st # "ok"
    THEN [raised |-> FALSE, called |-> FALSE, prompt |-> NoPrompt,
          trend |-> Str("No comprehensive trend data available.")]
    ELSE IF Len(RecentReports(file, city_name)) < 2
    THEN [raised |-> FALSE, called |-> FALSE, prompt |-> NoPrompt,
          trend |-> Str("No comprehensive trend data available.")]
    ELSE IF \E k \in 1..Len(RecentReports(file, city_name)) :
                ~HasTime(Get(RecentReports(file, city_name)[k].timestamp,
                             PyStr(Str("N/A"))))
    THEN [raised |-> TRUE, called |-> FALSE, prompt |-> NoPrompt, trend |-> <<>>]
    ELSE [raised |-> FALSE, called |-> TRUE,
          prompt |-> TrendPrompt(RecentReports(file, city_name),
                                 current_risk_report),
          trend |-> IF llm.ok THEN Strip(llm.text)
                    ELSE Str("Error analyzing trend.")]

(***************************************************************************)
(* Recommendation Synthesizer.                                             *)
(***************************************************************************)
\* variant: the heat risk is not looked at
agent_3_ignores_heat(risk_report, heat_report, aq_report, llm) ==
    IF risk_report.primary_level = Str("LOW")
    THEN IF ~IsNumber(Get(aq_report.aqi, PyInt(0)))
         THEN [raised |-> TRUE, called |-> FALSE, text |-> <<>>]
         ELSE IF Get(aq_report.aqi, PyInt(0)).i <= 2
         THEN [raised |-> FALSE, called |-> FALSE,
               text |-> Str("Conditions are stable, air quality is good, and heat risk is minimal. No special actions required.")]
         ELSE [raised |-> FALSE, called |-> TRUE,
               text |-> IF llm.ok THEN llm.text
                        ELSE Str("Error generating recommendations.")]
    ELSE [raised |-> FALSE, called |-> TRUE,
          text |-> IF llm.ok THEN llm.text
                   ELSE Str("Error generating recommendations.")]

\* agent_3_action_recommender(risk_report, heat_report, air_quality_report, forecast_data)
agent_3_action_recommender(risk_report, heat_report, aq_report, llm) ==
    IF risk_report.primary_level = Str("LOW") /\ heat_report.heat_risk = Str("LOW")
    THEN IF ~IsNumber(Get(aq_report.aqi, PyInt(0)))
         THEN [raised |-> TRUE, called |-> FALSE, text |-> <<>>]   \* str <= int
         ELSE IF Get(aq_report.aqi, PyInt(0)).i <= 2
         THEN [raised |-> FALSE, called |-> FALSE,
               text |-> Str("Conditions are stable, air quality is good, and heat risk is minimal. No special actions required.")]
         ELSE [raised |-> FALSE, called |-> TRUE,
               text |-> IF llm.ok THEN llm.text
                        ELSE Str("Error generating recommendations.")]
    ELSE [raised |-> FALSE, called |-> TRUE,
          text |-> IF llm.ok THEN llm.text
                   ELSE Str("Error generating recommendations.")]

(***************************************************************************)
(* Forecast Aggregator.  A Forecast Sample is [dt, temp_min, temp_max,     *)
(* icon, pop]: dt in hours of local time since the epoch, temperatures in  *)
(* tenths of a degree, pop in percent and PyNone when the sample has no    *)
(* 'pop'.  A dict is kept as the sequence of its entries in insertion      *)
(* order, each with its key.                                               *)
(***************************************************************************)
HoursPerDay == 24

\* datetime.fromtimestamp(item['dt']).strftime('%Y-%m-%d')
DateKey(dt) == dt \div HoursPerDay

\* where a dict holds a key, 0 when it does not
IndexOf(entries, key) ==
    IF \E k \in 1..Len(entries) : entries[k].key = key
    THEN CHOOSE k \in 1..Len(entries) : entries[k].key = key
    ELSE 0

\* icons[icon] = icons.get(icon, 0) + 1
CountIcon(icons, icon) ==
    IF IndexOf(icons, icon) = 0
    THEN Append(icons, [key |-> icon, count |-> 1])
    ELSE [icons EXCEPT ![IndexOf(icons, icon)].count = @ + 1]

\* variant: the comparisons of the running minimum and maximum are inverted
AddSampleInverted(daily_forecasts, item) ==
    LET date_key == DateKey(item.dt)
        pop == Get(item.pop, PyInt(0)).i
        at == IndexOf(daily_forecasts, date_key)
    IN  IF at = 0
        THEN Append(daily_forecasts,
                    [key |-> date_key, date_ts |-> item.dt,
                     temp_min |-> item.temp_min, temp_max |-> item.temp_max,
                     icons |-> <<[key |-> item.icon, count |-> 1]>>,
                     pops |-> <<pop>>])
        ELSE LET day == daily_forecasts[at]
             IN  [daily_forecasts EXCEPT ![at] =
                     [key |-> day.key, date_ts |-> day.date_ts,
                      temp_min |-> IF item.temp_min > day.temp_min
                                   THEN item.temp_min ELSE day.temp_min,
                      temp_max |-> IF item.temp_max < day.temp_max
                                   THEN item.temp_max ELSE day.temp_max,
                      icons |-> CountIcon(day.icons, item.icon),
                      pops |-> Append(day.pops, pop)]]

\* variant: a sample without 'pop' is left out of the day's pops and the
\* day keeps the first sample's temp_max
AddSampleFirstMax(daily_forecasts, item) ==
    LET date_key == DateKey(item.dt)
        pop == Get(item.pop, PyInt(100)).i
        at == IndexOf(daily_forecasts, date_key)
    IN  IF at = 0
        THEN Append(daily_forecasts,
                    [key |-> date_key, date_ts |-> item.dt,
                     temp_min |-> item.temp_min, temp_max |-> item.temp_max,
                     icons |-> <<[key |-> item.icon, count |-> 1]>>,
                     pops |-> <<pop>>])
        ELSE LET day == daily_forecasts[at]
             IN  [daily_forecasts EXCEPT ![at] =
                     [key |-> day.key, date_ts |-> day.date_ts,
                      temp_min |-> IF item.temp_min < day.temp_min
                                   THEN item.temp_min ELSE day.temp_min,
                      temp_max |-> day.temp_max,
                      icons |-> CountIcon(day.icons, item.icon),
                      pops |-> Append(day.pops, pop)]]

\* one pass of the loop over data.get('list', [])
AddSample(daily_forecasts, item) ==
    LET date_key == DateKey(item.dt)
        pop == Get(item.pop, PyInt(0)).i
        at == IndexOf(daily_forecasts, date_key)
    IN  IF at = 0
        THEN Append(daily_forecasts,
                    [key |-> date_key, date_ts |-> item.dt,
                     temp_min |-> item.temp_min, temp_max |-> item.temp_max,
                     icons |-> <<[key |-> item.icon, count |-> 1]>>,
                     pops |-> <<pop>>])
        ELSE LET day == daily_forecasts[at]
             IN  [daily_forecasts EXCEPT ![at] =
                     [key |-> day.key, date_ts |-> day.date_ts,
                      temp_min |-> IF item.temp_min < day.temp_min
                                   THEN item.temp_min ELSE day.temp_min,
                      temp_max |-> IF item.temp_max > day.temp_max
                                   THEN item.temp_max ELSE day.temp_max,
                      icons |-> CountIcon(day.icons, item.icon),
                      pops |-> Append(day.pops, pop)]]

\* daily_forecasts after the loop over the samples
RECURSIVE GroupByDate(_)
GroupByDate(list) ==
    IF list = <<>> THEN <<>>
    ELSE AddSample(GroupByDate(SubSeq(list, 1, Len(list) - 1)), list[Len(list)])

\* variant: among the most frequent codes the last one counted wins
MostCommonIconLast(icons) ==
    LET best == CHOOSE k \in 1..Len(icons) :
                    /\ \A j \in 1..Len(icons) : icons[j].count <= icons[k].count
                    /\ \A j \in (k + 1)..Len(icons) : icons[j].count < icons[k].count
    IN  icons[best].key

\* max(values['icons'], key=values['icons'].get): the first key, in the
\* dict's order, whose count is the greatest
MostCommonIcon(icons) ==
    LET best == CHOOSE k \in 1..Len(icons) :
                    /\ \A j \in 1..Len(icons) : icons[j].count <= icons[k].count
                    /\ \A j \in 1..(k - 1) : icons[j].count < icons[k].count
    IN  icons[best].key

\* max(values['pops'])
MaxPop(pops) ==
    CHOOSE m \in {pops[k] : k \in 1..Len(pops)} :
        \A k \in 1..Len(pops) : pops[k] <= m

\* processed_daily as appended to, one summary per entry of daily_forecasts
Summaries(daily_forecasts) ==
    [k \in 1..Len(daily_forecasts) |->
        [dt |-> daily_forecasts[k].date_ts,
         temp_min |-> daily_forecasts[k].temp_min,
         temp_max |-> daily_forecasts[k].temp_max,
         icon |-> MostCommonIcon(daily_forecasts[k].icons),
         pop |-> MaxPop(daily_forecasts[k].pops)]]

\* list.sort places x after the elements that do not come after it
InsertByDt(sorted, x) ==
    LET n == Cardinality({k \in 1..Len(sorted) : sorted[k].dt <= x.dt})
    IN  SubSeq(sorted, 1, n) \o <<x>> \o SubSeq(sorted, n + 1, Len(sorted))

\* processed_daily.sort(key=lambda x: x['dt'])
RECURSIVE SortByDt(_)
SortByDt(processed_daily) ==
    IF processed_daily = <<>> THEN <<>>
    ELSE InsertByDt(SortByDt(SubSeq(processed_daily, 1, Len(processed_daily) - 1)),
                    processed_daily[Len(processed_daily)])

\* agent_1_5_forecast_processor of run_agent_loop.py, on the fetched list
agent_1_5_forecast_processor(list) ==
    SortByDt(Summaries(GroupByDate(list)))

\* agent_1_5_forecast_processor of agents.py, which does not sort
agents_agent_1_5_forecast_processor(list) ==
    Summaries(GroupByDate(list))

(***************************************************************************)
(* State of the orchestrator before a run has produced anything.           *)
(***************************************************************************)
NoForecast == [present |-> FALSE, daily |-> <<>>]
NoAirReport == [aqi |-> PyNone, analysis |-> <<>>, tomorrow_aqi |-> PyNone]
NoHeatReport == [heat_index_c |-> PyNone, heat_risk |-> <<>>, warning |-> <<>>]
NoDetails ==
    [temp_c |-> PyNone, wind_speed_ms |-> 0, description |-> <<>>,
     humidity |-> PyNone]
NoReport ==
    [primary_level |-> <<>>, reasoning |-> <<>>, details |-> NoDetails,
     air_quality_report |-> NoAirReport, heat_risk_report |-> NoHeatReport,
     heat_risk |-> <<>>, final_level |-> <<>>, final_reasoning |-> <<>>,
     trend |-> <<>>]

EntryKeys ==
    {"timestamp", "city", "final_risk_level", "primary_level", "reasoning",
     "heat_risk", "heat_index_c", "aqi", "analysis", "tomorrow_aqi",
     "final_level", "final_reasoning", "trend", "recommendations"}

NoEntry == [k \in EntryKeys |-> PyNone]

\* log_entry = {...} of the main loop
MakeLogEntry(ts, city, report, actions) ==
    [timestamp |-> PyStr(ts),
     city |-> PyStr(city),
     final_risk_level |-> PyStr(report.final_level),
     primary_level |-> PyStr(report.primary_level),
     reasoning |-> PyStr(report.reasoning),
     heat_risk |-> PyStr(report.heat_risk),
     heat_index_c |-> report.heat_risk_report.heat_index_c,
     aqi |-> report.air_quality_report.aqi,
     analysis |-> PyStr(report.air_quality_report.analysis),
     tomorrow_aqi |-> report.air_quality_report.tomorrow_aqi,
     final_level |-> PyStr(report.final_level),
     final_reasoning |-> PyStr(report.final_reasoning),
     trend |-> PyStr(report.trend),
     recommendations |-> PyStr(actions)]

IdleWriter == [pc |-> "idle", location |-> <<>>]

NoWait == [start |-> <<>>, changed |-> FALSE]

\* the wait begins: the directive as get_target_location would read it
BeginWait(file) == [start |-> get_target_location(file), changed |-> FALSE]

\* the directive file changes during a wait
WatchWait(w, position, file) ==
    IF position = "SLEEPING" /\ get_target_location(file) # w.start
    THEN [w EXCEPT !.changed = TRUE]
    ELSE w

\* an enrichment call by an agent, when the agent made one
Called(calls, agent, made, llm) ==
    IF made THEN Append(calls, [agent |-> agent, ok |-> llm.ok]) ELSE calls

Init ==
    /\ pc = "READING_LOCATION"
    /\ runs = 0
    /\ run_timestamp = <<>>
    /\ CITY_NAME = <<>>
    /\ control_file = AbsentFile
    /\ writer = IdleWriter
    /\ writes = 0
    /\ memory_file = AbsentFile
    /\ weather_json = NoSnapshot
    /\ forecast_json = NoForecast
    /\ forecast_list = <<>>
    /\ raw_aqi_data = PyNone
    /\ advanced_fetch_data = PyNone
    /\ risk_report_dict = NoReport
    /\ heat_risk_report = NoHeatReport
    /\ air_quality_report = NoAirReport
    /\ final_risk_result = <<>>
    /\ final_level_default = <<>>
    /\ action_list = <<>>
    /\ log_entry = NoEntry
    /\ memory = <<>>
    /\ saved = <<>>
    /\ save_report = ""
    /\ dispatched = FALSE
    /\ polls_left = 0
    /\ change_detected = FALSE
    /\ llm_calls = <<>>
    /\ trend_prompt = NoPrompt
    /\ wait = NoWait

fileVars == <<control_file, writer, writes, memory_file>>
fetchVars ==
    <<weather_json, forecast_json, forecast_list, raw_aqi_data,
      advanced_fetch_data>>
reportVars ==
    <<risk_report_dict, heat_risk_report, air_quality_report,
      final_risk_result, final_level_default, action_list, llm_calls,
      trend_prompt>>
saveVars == <<log_entry, memory, saved, save_report>>
sleepVars == <<polls_left, change_detected, wait>>

(***************************************************************************)
(* The main loop, one action per stage.                                    *)
(***************************************************************************)
\* top of the loop: run_timestamp and CITY_NAME = get_target_location()
ReadLocation ==
    /\ pc = "READING_LOCATION"
    /\ runs < MaxRuns
    /\ runs' = runs + 1
    /\ run_timestamp' = IsoFormat(runs + 1)
    /\ CITY_NAME' = get_target_location(control_file)
    /\ weather_json' = NoSnapshot
    /\ forecast_json' = NoForecast
    /\ forecast_list' = <<>>
    /\ raw_aqi_data' = PyNone
    /\ advanced_fetch_data' = PyNone
    /\ risk_report_dict' = NoReport
    /\ heat_risk_report' = NoHeatReport
    /\ air_quality_report' = NoAirReport
    /\ final_risk_result' = <<>>
    /\ final_level_default' = <<>>
    /\ action_list' = <<>>
    /\ llm_calls' = <<>>
    /\ trend_prompt' = NoPrompt
    /\ log_entry' = NoEntry
    /\ memory' = <<>>
    /\ save_report' = ""
    /\ dispatched' = FALSE
    /\ wait' = NoWait
    /\ pc' = "FETCHING"
    /\ UNCHANGED <<fileVars, saved, polls_left, change_detected>>

\* variant: the run is skipped only when both fetches fail
FetchingEither(snapshots, forecasts, aqis, tomorrows) ==
    /\ pc = "FETCHING"
    /\ \E w \in snapshots \cup {NoSnapshot},
          f \in {[present |-> FALSE, list |-> <<>>]} \cup
                {[present |-> TRUE, list |-> l] : l \in forecasts} :
          /\ weather_json' = w
          /\ forecast_list' = f.list
          /\ forecast_json' =
                 IF f.present
                 THEN [present |-> TRUE,
                       daily |-> agent_1_5_forecast_processor(f.list)]
                 ELSE NoForecast
          /\ IF w.present \/ f.present
             THEN /\ \E a \in aqis \cup {PyNone}, t \in tomorrows :
                        /\ raw_aqi_data' = a
                        /\ advanced_fetch_data' = t
                  /\ pc' = "CLASSIFYING"
                  /\ UNCHANGED <<polls_left, wait>>
             ELSE /\ UNCHANGED <<raw_aqi_data, advanced_fetch_data>>
                  /\ pc' = "SLEEPING"
                  /\ polls_left' = SleepPolls
                  /\ wait' = BeginWait(control_file)
    /\ UNCHANGED <<runs, run_timestamp, CITY_NAME, fileVars, reportVars,
                   saveVars, dispatched, change_detected>>

\* agent_1_weather_fetcher, agent_1_5_forecast_processor and, when both
\* returned data, agent_1_6_air_quality_fetcher and agent_1_7_advanced_fetcher
Fetching(snapshots, forecasts, aqis, tomorrows) ==
    /\ pc = "FETCHING"
    /\ \E w \in snapshots \cup {NoSnapshot},
          f \in {[present |-> FALSE, list |-> <<>>]} \cup
                {[present |-> TRUE, list |-> l] : l \in forecasts} :
          /\ weather_json' = w
          /\ forecast_list' = f.list
          /\ forecast_json' =
                 IF f.present
                 THEN [present |-> TRUE,
                       daily |-> agent_1_5_forecast_processor(f.list)]
                 ELSE NoForecast
          /\ IF w.present /\ f.present
             THEN /\ \E a \in aqis \cup {PyNone}, t \in tomorrows :
                        /\ raw_aqi_data' = a
                        /\ advanced_fetch_data' = t
                  /\ pc' = "CLASSIFYING"
                  /\ UNCHANGED <<polls_left, wait>>
             ELSE /\ UNCHANGED <<raw_aqi_data, advanced_fetch_data>>
                  /\ pc' = "SLEEPING"
                  /\ polls_left' = SleepPolls
                  /\ wait' = BeginWait(control_file)
    /\ UNCHANGED <<runs, run_timestamp, CITY_NAME, fileVars, reportVars,
                   saveVars, dispatched, change_detected>>

\* agent_2_risk_classifier and agent_2_7_heat_classifier
Classifying ==
    /\ pc = "CLASSIFYING"
    /\ LET risk == agent_2_risk_classifier(weather_json)
       IN  IF risk.raised
           THEN /\ pc' = "CRASHED"
                /\ UNCHANGED <<risk_report_dict, heat_risk_report>>
           ELSE /\ risk_report_dict' =
                       [risk_report_dict EXCEPT
                           !.primary_level = risk.primary_level,
                           !.reasoning = risk.reasoning,
                           !.details = [temp_c |-> risk.temp_c,
                                        wind_speed_ms |-> risk.wind_speed_ms,
                                        description |-> risk.description,
                                        humidity |-> risk.humidity]]
                /\ heat_risk_report' =
                       agent_2_7_heat_classifier(risk.temp_c, risk.humidity)
                /\ pc' = "ENRICHING"
    /\ UNCHANGED <<runs, run_timestamp, CITY_NAME, fileVars, fetchVars,
                   air_quality_report, final_risk_result, final_level_default,
                   action_list, llm_calls, trend_prompt, saveVars, dispatched,
                   sleepVars>>

\* agent_2_5_air_quality_analyzer (the validator and the icon analyzer
\* return opaque strings) and risk_report_dict.update(...)
Enriching(replies) ==
    /\ pc = "ENRICHING"
    /\ \E llm \in replies \cup {Failed} :
          LET report == agent_2_5_air_quality_analyzer(raw_aqi_data,
                                                       advanced_fetch_data, llm)
          IN  /\ air_quality_report' = report
              /\ risk_report_dict' =
                     [risk_report_dict EXCEPT
                         !.air_quality_report = report,
                         !.heat_risk_report = heat_risk_report,
                         !.heat_risk = heat_risk_report.heat_risk]
              /\ llm_calls' = Called(llm_calls, "agent_2_5",
                                     raw_aqi_data # PyNone, llm)
    /\ pc' = "RESOLVING"
    /\ UNCHANGED <<runs, run_timestamp, CITY_NAME, fileVars, fetchVars,
                   heat_risk_report, final_risk_result, final_level_default,
                   action_list, trend_prompt, saveVars, dispatched,
                   sleepVars>>

\* final_level = final_risk_result.split(':')[0].strip()
ParseLevel(result) == Strip(SplitHead(result))

\* final_reasoning = final_risk_result.split(':', 1)[-1].strip()
ParseReasoning(result) == Strip(SplitRest(result))

\* agent_11_alert_prioritizer and the parsing of its result
Resolving(replies) ==
    /\ pc = "RESOLVING"
    /\ IF PriorityRaises(risk_report_dict)
       THEN /\ pc' = "CRASHED"
            /\ UNCHANGED <<risk_report_dict, final_risk_result,
                           final_level_default, llm_calls>>
       ELSE /\ \E llm \in replies \cup {Failed} :
                  LET result == agent_11_alert_prioritizer(risk_report_dict, llm)
                  IN  /\ final_risk_result' = result
                      /\ risk_report_dict' =
                             [risk_report_dict EXCEPT
                                 !.final_level = ParseLevel(result),
                                 !.final_reasoning = ParseReasoning(result)]
                      /\ llm_calls' = Called(llm_calls, "agent_11", TRUE, llm)
            /\ final_level_default' = PriorityFloor(risk_report_dict)
            /\ pc' = "TREND"
    /\ UNCHANGED <<runs, run_timestamp, CITY_NAME, fileVars, fetchVars,
                   heat_risk_report, air_quality_report, action_list,
                   trend_prompt, saveVars, dispatched, sleepVars>>

\* agent_5_trend_forecaster
Trending(replies) ==
    /\ pc = "TREND"
    /\ \E llm \in replies \cup {Failed} :
          LET r == agent_5_trend_forecaster(risk_report_dict, memory_file,
                                            CITY_NAME, llm)
          IN  IF r.raised
              THEN /\ pc' = "CRASHED"
                   /\ UNCHANGED <<risk_report_dict, llm_calls, trend_prompt>>
              ELSE /\ risk_report_dict' = [risk_report_dict EXCEPT !.trend = r.trend]
                   /\ llm_calls' = Called(llm_calls, "agent_5", r.called, llm)
                   /\ trend_prompt' = r.prompt
                   /\ pc' = "RECOMMENDING"
    /\ UNCHANGED <<runs, run_timestamp, CITY_NAME, fileVars, fetchVars,
                   heat_risk_report, air_quality_report, final_risk_result,
                   final_level_default, action_list, saveVars, dispatched,
                   sleepVars>>

\* variant: the report is dispatched before the record is saved
RecommendingThenDispatch(replies) ==
    /\ pc = "RECOMMENDING"
    /\ \E llm \in replies \cup {Failed} :
          LET r == agent_3_action_recommender(risk_report_dict, heat_risk_report,
                                              air_quality_report, llm)
          IN  IF r.raised
              THEN pc' = "CRASHED" /\ UNCHANGED <<action_list, log_entry, llm_calls>>
              ELSE /\ action_list' = r.text
                   /\ llm_calls' = Called(llm_calls, "agent_3", r.called, llm)
                   /\ log_entry' = MakeLogEntry(run_timestamp, CITY_NAME,
                                                risk_report_dict, r.text)
                   /\ pc' = "DISPATCHING"
    /\ UNCHANGED <<runs, run_timestamp, CITY_NAME, fileVars, fetchVars,
                   risk_report_dict, heat_risk_report, air_quality_report,
                   final_risk_result, final_level_default, trend_prompt,
                   memory, saved, save_report, dispatched, sleepVars>>

\* agent_3_action_recommender, the news and satellite agents (opaque
\* strings), the broadcast and the creation of log_entry
Recommending(replies) ==
    /\ pc = "RECOMMENDING"
    /\ \E llm \in replies \cup {Failed} :
          LET r == agent_3_action_recommender(risk_report_dict, heat_risk_report,
                                              air_quality_report, llm)
          IN  IF r.raised
              THEN pc' = "CRASHED" /\ UNCHANGED <<action_list, log_entry, llm_calls>>
              ELSE /\ action_list' = r.text
                   /\ llm_calls' = Called(llm_calls, "agent_3", r.called, llm)
                   /\ log_entry' = MakeLogEntry(run_timestamp, CITY_NAME,
                                                risk_report_dict, r.text)
                   /\ pc' = "PERSISTING"
    /\ UNCHANGED <<runs, run_timestamp, CITY_NAME, fileVars, fetchVars,
                   risk_report_dict, heat_risk_report, air_quality_report,
                   final_risk_result, final_level_default, trend_prompt,
                   memory, saved, save_report, dispatched, sleepVars>>

(***************************************************************************)
(* save_to_memory_bank(log_entry, MEMORY_FILE), one action per file        *)
(* operation.  open(path, 'w') creates or truncates the file: until the    *)
(* dump is written the file is empty, which does not parse.  Any open or   *)
(* write may fail with an OSError.                                         *)
(***************************************************************************)
cycleVars ==
    <<runs, run_timestamp, CITY_NAME, control_file, writer, writes,
      fetchVars, reportVars, dispatched, sleepVars>>

\* if not os.path.exists(filepath): open(filepath, 'w'), outside the try
SaveCreate ==
    /\ pc = "PERSISTING"
    /\ memory_file.st = "absent"
    /\ \/ memory_file' = CorruptFile /\ pc' = "SAVE_CREATE_DUMP"
       \/ pc' = "CRASHED" /\ UNCHANGED memory_file
    /\ UNCHANGED <<cycleVars, saveVars>>

\* json.dump([], f), outside the try
SaveCreateDump ==
    /\ pc = "SAVE_CREATE_DUMP"
    /\ \/ memory_file' = OkFile(JsonDumpStore(<<>>)) /\ pc' = "SAVE_LOAD"
       \/ pc' = "CRASHED" /\ UNCHANGED memory_file
    /\ UNCHANGED <<cycleVars, saveVars>>

\* variant: the new entry replaces what was loaded
SaveLoadFresh ==
    /\ pc \in {"PERSISTING", "SAVE_LOAD"}
    /\ memory_file.st # "absent"
    /\ \/ /\ memory_file.st = "ok"
          /\ memory' = <<log_entry>>
          /\ pc' = "SAVE_OPEN"
          /\ UNCHANGED save_report
       \/ /\ memory_file.st = "corrupt"
          /\ pc' = "SAVE_RESET_OPEN"
          /\ UNCHANGED <<memory, save_report>>
       \/ /\ pc' = "DISPATCHING"
          /\ save_report' = "ERROR: Failed to save to memory"
          /\ UNCHANGED memory
    /\ UNCHANGED <<cycleVars, memory_file, log_entry, saved>>

\* memory = json.load(f); memory.append(log_entry)
SaveLoad ==
    /\ pc \in {"PERSISTING", "SAVE_LOAD"}
    /\ memory_file.st # "absent"
    /\ \/ /\ memory_file.st = "ok"
          /\ memory' = Append(JsonLoadStore(memory_file.data), log_entry)
          /\ pc' = "SAVE_OPEN"
          /\ UNCHANGED save_report
       \/ /\ memory_file.st = "corrupt"          \* json.JSONDecodeError
          /\ pc' = "SAVE_RESET_OPEN"
          /\ UNCHANGED <<memory, save_report>>
       \/ /\ pc' = "DISPATCHING"                 \* except Exception
          /\ save_report' = "ERROR: Failed to save to memory"
          /\ UNCHANGED memory
    /\ UNCHANGED <<cycleVars, memory_file, log_entry, saved>>

\* with open(filepath, 'w') as f, inside the try
SaveOpen ==
    /\ pc = "SAVE_OPEN"
    /\ \/ /\ memory_file' = CorruptFile
          /\ pc' = "SAVE_DUMP"
          /\ UNCHANGED save_report
       \/ /\ pc' = "DISPATCHING"                 \* except Exception
          /\ save_report' = "ERROR: Failed to save to memory"
          /\ UNCHANGED memory_file
    /\ UNCHANGED <<cycleVars, log_entry, memory, saved>>

\* json.dump(memory, f, indent=4), inside the try
SaveDump ==
    /\ pc = "SAVE_DUMP"
    /\ \/ /\ memory_file' = OkFile(JsonDumpStore(memory))
          /\ saved' = Append(saved, log_entry)
          /\ save_report' = "Save successful."
       \/ /\ save_report' = "ERROR: Failed to save to memory"   \* except Exception
          /\ UNCHANGED <<memory_file, saved>>
    /\ pc' = "DISPATCHING"
    /\ UNCHANGED <<cycleVars, log_entry, memory>>

\* except json.JSONDecodeError: open(filepath, 'w'), not guarded
SaveResetOpen ==
    /\ pc = "SAVE_RESET_OPEN"
    /\ \/ memory_file' = CorruptFile /\ pc' = "SAVE_RESET_DUMP"
       \/ pc' = "CRASHED" /\ UNCHANGED memory_file
    /\ UNCHANGED <<cycleVars, saveVars>>

\* except json.JSONDecodeError: json.dump([log_entry], f, indent=4)
SaveResetDump ==
    /\ pc = "SAVE_RESET_DUMP"
    /\ \/ /\ memory_file' = OkFile(JsonDumpStore(<<log_entry>>))
          /\ save_report' = "Warning: Memory file was corrupted. Started new log."
          /\ pc' = "DISPATCHING"
       \/ pc' = "CRASHED" /\ UNCHANGED <<memory_file, save_report>>
    /\ UNCHANGED <<cycleVars, log_entry, memory, saved>>

(***************************************************************************)
(* Dispatch and the inter-cycle wait.                                      *)
(***************************************************************************)
\* variant: MODERATE does not start the report workflow
DispatchingHighOnly ==
    /\ pc = "DISPATCHING"
    /\ dispatched' = (risk_report_dict.final_level \in
                          {Str("CRITICAL"), Str("HIGH")})
    /\ pc' = "SLEEPING"
    /\ polls_left' = SleepPolls
    /\ wait' = BeginWait(control_file)
    /\ UNCHANGED <<runs, run_timestamp, CITY_NAME, fileVars, fetchVars,
                   reportVars, saveVars, change_detected>>

\* if final_level in ["CRITICAL", "HIGH", "MODERATE"]: PDF and email
Dispatching ==
    /\ pc = "DISPATCHING"
    /\ dispatched' = (risk_report_dict.final_level \in
                          {Str("CRITICAL"), Str("HIGH"), Str("MODERATE")})
    /\ pc' = "SLEEPING"
    /\ polls_left' = SleepPolls
    /\ wait' = BeginWait(control_file)
    /\ UNCHANGED <<runs, run_timestamp, CITY_NAME, fileVars, fetchVars,
                   reportVars, saveVars, change_detected>>

\* variant: the poll is compared with the directive as it read when the
\* wait began, not with the location of the run
SleepingFromWaitStart ==
    /\ pc = "SLEEPING"
    /\ polls_left > 0
    /\ LET current_file_location == get_target_location(control_file)
       IN  IF Lower(current_file_location) # Lower(wait.start)
           THEN /\ change_detected' = TRUE
                /\ pc' = "READING_LOCATION"
                /\ UNCHANGED polls_left
           ELSE /\ polls_left' = polls_left - 1
                /\ IF polls_left = 1
                   THEN change_detected' = FALSE /\ pc' = "READING_LOCATION"
                   ELSE UNCHANGED <<change_detected, pc>>
    /\ UNCHANGED wait
    /\ UNCHANGED <<runs, run_timestamp, CITY_NAME, fileVars, fetchVars,
                   reportVars, saveVars, dispatched>>

\* variant: the polled location is compared without .lower()
SleepingCaseSensitive ==
    /\ pc = "SLEEPING"
    /\ polls_left > 0
    /\ LET current_file_location == get_target_location(control_file)
       IN  IF current_file_location # CITY_NAME
           THEN /\ change_detected' = TRUE
                /\ pc' = "READING_LOCATION"
                /\ UNCHANGED polls_left
           ELSE /\ polls_left' = polls_left - 1
                /\ IF polls_left = 1
                   THEN change_detected' = FALSE /\ pc' = "READING_LOCATION"
                   ELSE UNCHANGED <<change_detected, pc>>
    /\ UNCHANGED wait
    /\ UNCHANGED <<runs, run_timestamp, CITY_NAME, fileVars, fetchVars,
                   reportVars, saveVars, dispatched>>

\* smart_sleep_and_watch: one time.sleep(check_interval_seconds), the poll
\* of the control file that follows it and the test of the loop
Sleeping ==
    /\ pc = "SLEEPING"
    /\ polls_left > 0
    /\ LET current_file_location == get_target_location(control_file)
       IN  IF Lower(current_file_location) # Lower(CITY_NAME)
           THEN /\ change_detected' = TRUE
                /\ pc' = "READING_LOCATION"
                /\ UNCHANGED polls_left
           ELSE /\ polls_left' = polls_left - 1
                /\ IF polls_left = 1
                   THEN change_detected' = FALSE /\ pc' = "READING_LOCATION"
                   ELSE UNCHANGED <<change_detected, pc>>
    /\ UNCHANGED wait
    /\ UNCHANGED <<runs, run_timestamp, CITY_NAME, fileVars, fetchVars,
                   reportVars, saveVars, dispatched>>

\* except KeyboardInterrupt: the user stops the loop
KeyboardInterrupt ==
    /\ pc \notin {"STOPPED", "CRASHED"}
    /\ pc' = "STOPPED"
    /\ UNCHANGED <<runs, run_timestamp, CITY_NAME, fileVars, fetchVars,
                   reportVars, saveVars, dispatched, sleepVars>>

(***************************************************************************)
(* The dashboard: write_control_file(location).                            *)
(***************************************************************************)
orchestratorVars ==
    <<pc, runs, run_timestamp, CITY_NAME, memory_file, fetchVars, reportVars,
      saveVars, dispatched, polls_left, change_detected>>

\* with open(CONTROL_FILE, 'w') as f
WriterOpen ==
    /\ writer.pc = "idle"
    /\ writes < MaxWrites
    /\ \E location \in Locations :
          writer' = [pc |-> "dump", location |-> location]
    /\ control_file' = CorruptFile
    /\ writes' = writes + 1
    /\ wait' = WatchWait(wait, pc, CorruptFile)
    /\ UNCHANGED orchestratorVars

\* json.dump({"location": location}, f)
WriterDump ==
    /\ writer.pc = "dump"
    /\ control_file' = OkFile(ControlContent(writer.location))
    /\ writer' = IdleWriter
    /\ wait' = WatchWait(wait, pc, OkFile(ControlContent(writer.location)))
    /\ UNCHANGED <<writes, orchestratorVars>>

(***************************************************************************)
(* What the environment of the loop delivers.                              *)
(***************************************************************************)
\* snapshot of end-to-end scenario A: wind 25, "moderate rain", 22 C, 60 %
RainWind == Snapshot(25, <<"moderate", " ", "rain">>, 220, PyInt(60))

LoopSnapshots == {RainWind}
LoopForecasts == {<<>>}
LoopAqis == {PyInt(2)}
LoopTomorrows == {PyStr(Str("N/A"))}
LoopReplies == {}

Save ==
    \/ SaveCreate
    \/ SaveCreateDump
    \/ SaveLoad
    \/ SaveOpen
    \/ SaveDump
    \/ SaveResetOpen
    \/ SaveResetDump

Next ==
    \/ ReadLocation
    \/ Fetching(LoopSnapshots, LoopForecasts, LoopAqis, LoopTomorrows)
    \/ Classifying
    \/ Enriching(LoopReplies)
    \/ Resolving(LoopReplies)
    \/ Trending(LoopReplies)
    \/ Recommending(LoopReplies)
    \/ Save
    \/ Dispatching
    \/ Sleeping
    \/ KeyboardInterrupt
    \/ WriterOpen
    \/ WriterDump

Spec == Init /\ [][Next]_vars

(***************************************************************************)
(* One run of the loop in detail: every combination of primary level,      *)
(* heat risk and air-quality index, and the replies of the enrichment      *)
(* service, from the stores and directives earlier runs leave behind.      *)
(***************************************************************************)
CycleSnapshots ==
    {Snapshot(c[1], c[2], h[1], PyInt(h[2])) :
        c \in {<<5, <<"clear", " ", "sky">>>>,
               <<5, <<"light", " ", "rain">>>>,
               <<25, <<"moderate", " ", "rain">>>>},
        h \in {<<220, 60>>, <<280, 50>>, <<300, 60>>, <<350, 70>>}}

CycleForecasts == {<<>>}
CycleAqis == {PyInt(k) : k \in 1..5}
CycleTomorrows == {PyInt(3)}

AnalysisReplies == {Said(<<"Air quality is fair.", "\n">>)}
PriorityReplies ==
    {Said(<<"LOW", ":", " ", "The highest score wins.">>),
     Said(<<"MODERATE", ":", " ", "The highest score wins.">>),
     Said(<<"HIGH", ":", " ", "The highest score wins.">>),
     Said(<<"CRITICAL", ":", " ", "The highest score wins.">>),
     Said(<<"The final level is HIGH.">>),
     Said(<<"\n", "HIGH", " ", ":", " ", "Reason", ":", " ", "heat", "\n">>)}
TrendReplies == {Said(<<"The risk is stable.">>)}
ActionReplies == {Said(<<"- Stay indoors.">>)}

\* the Risk Report of a run on RainWind with index 2 when every enrichment
\* call fails and the store has no history
PastReport ==
    LET risk == agent_2_risk_classifier(RainWind)
        heat == agent_2_7_heat_classifier(risk.temp_c, risk.humidity)
        air == agent_2_5_air_quality_analyzer(PyInt(2), PyStr(Str("N/A")), Failed)
        report == [NoReport EXCEPT
                      !.primary_level = risk.primary_level,
                      !.reasoning = risk.reasoning,
                      !.details = [temp_c |-> risk.temp_c,
                                   wind_speed_ms |-> risk.wind_speed_ms,
                                   description |-> risk.description,
                                   humidity |-> risk.humidity],
                      !.air_quality_report = air,
                      !.heat_risk_report = heat,
                      !.heat_risk = heat.heat_risk]
        result == agent_11_alert_prioritizer(report, Failed)
    IN  [report EXCEPT
            !.final_level = ParseLevel(result),
            !.final_reasoning = ParseReasoning(result),
            !.trend = Str("No comprehensive trend data available.")]

\* the Historical Record of that run, the n-th of the loop
PastEntry(n) ==
    MakeLogEntry(IsoFormat(n), DEFAULT_LOCATION, PastReport,
                 Str("Error generating recommendations."))

TwoRuns == <<PastEntry(1), PastEntry(2)>>

\* what earlier runs leave: no store, a store of two records (read with
\* the directive absent or naming another location), a store whose last
\* rewrite failed
CycleStarts ==
    {[file |-> AbsentFile, saved |-> <<>>, runs |-> 0,
      directive |-> AbsentFile],
     [file |-> OkFile(JsonDumpStore(TwoRuns)), saved |-> TwoRuns, runs |-> 2,
      directive |-> AbsentFile],
     [file |-> OkFile(JsonDumpStore(TwoRuns)), saved |-> TwoRuns, runs |-> 2,
      directive |-> OkFile(ControlContent(Str("Paris,FR")))],
     [file |-> CorruptFile, saved |-> <<>>, runs |-> 1,
      directive |-> AbsentFile]}

InitCycle ==
    /\ pc = "FETCHING"
    /\ \E start \in CycleStarts :
          /\ memory_file = start.file
          /\ saved = start.saved
          /\ runs = start.runs + 1
          /\ run_timestamp = IsoFormat(start.runs + 1)
          /\ control_file = start.directive
          /\ CITY_NAME = get_target_location(start.directive)
    /\ writer = IdleWriter
    /\ writes = 0
    /\ weather_json = NoSnapshot
    /\ forecast_json = NoForecast
    /\ forecast_list = <<>>
    /\ raw_aqi_data = PyNone
    /\ advanced_fetch_data = PyNone
    /\ risk_report_dict = NoReport
    /\ heat_risk_report = NoHeatReport
    /\ air_quality_report = NoAirReport
    /\ final_risk_result = <<>>
    /\ final_level_default = <<>>
    /\ action_list = <<>>
    /\ log_entry = NoEntry
    /\ memory = <<>>
    /\ save_report = ""
    /\ dispatched = FALSE
    /\ polls_left = 0
    /\ change_detected = FALSE
    /\ llm_calls = <<>>
    /\ trend_prompt = NoPrompt
    /\ wait = NoWait

NextCycle ==
    \/ Fetching(CycleSnapshots, CycleForecasts, CycleAqis, CycleTomorrows)
    \/ Classifying
    \/ Enriching(AnalysisReplies)
    \/ Resolving(PriorityReplies)
    \/ Trending(TrendReplies)
    \/ Recommending(ActionReplies)
    \/ Save
    \/ Dispatching
    \/ Sleeping
    \/ KeyboardInterrupt

SpecCycle == InitCycle /\ [][NextCycle]_vars

(***************************************************************************)
(* save_to_memory_bank on its own: a caller that saves one record after    *)
(* the other, starting from an absent or empty store.                      *)
(***************************************************************************)
MaxSaves == 3       \* calls of save_to_memory_bank explored

StoreEntries ==
    {PastEntry(1),
     [PastEntry(2) EXCEPT
         !.city = PyStr(Str("Paris,FR")),
         !.heat_index_c = PyStr(Str("N/A")),
         !.aqi = PyInt(5),
         !.final_risk_level = PyStr(Str("CRITICAL")),
         !.final_level = PyStr(Str("CRITICAL"))],
     [PastEntry(3) EXCEPT
         !.city = PyStr(Str("kerala,in")),
         !.tomorrow_aqi = PyInt(3),
         !.final_risk_level = PyStr(Str("The final level is HIGH.")),
         !.final_level = PyStr(Str("The final level is HIGH.")),
         !.final_reasoning = PyStr(Str("The final level is HIGH."))]}

InitStore ==
    /\ pc = "PERSISTING"
    /\ log_entry \in StoreEntries
    /\ memory_file \in {AbsentFile, OkFile(JsonDumpStore(<<>>))}
    /\ runs = 1
    /\ run_timestamp = <<>>
    /\ CITY_NAME = <<>>
    /\ control_file = AbsentFile
    /\ writer = IdleWriter
    /\ writes = 0
    /\ weather_json = NoSnapshot
    /\ forecast_json = NoForecast
    /\ forecast_list = <<>>
    /\ raw_aqi_data = PyNone
    /\ advanced_fetch_data = PyNone
    /\ risk_report_dict = NoReport
    /\ heat_risk_report = NoHeatReport
    /\ air_quality_report = NoAirReport
    /\ final_risk_result = <<>>
    /\ final_level_default = <<>>
    /\ action_list = <<>>
    /\ memory = <<>>
    /\ saved = <<>>
    /\ save_report = ""
    /\ dispatched = FALSE
    /\ polls_left = 0
    /\ change_detected = FALSE
    /\ llm_calls = <<>>
    /\ trend_prompt = NoPrompt
    /\ wait = NoWait

\* save_to_memory_bank(log_entry, MEMORY_FILE), called again after it returned
CallSave ==
    /\ pc = "DISPATCHING"
    /\ runs < MaxSaves
    /\ runs' = runs + 1
    /\ log_entry' \in StoreEntries
    /\ save_report' = ""
    /\ pc' = "PERSISTING"
    /\ UNCHANGED <<run_timestamp, CITY_NAME, fileVars, fetchVars, reportVars,
                   memory, saved, dispatched, sleepVars>>

NextStore ==
    \/ CallSave
    \/ Save

SpecStore == InitStore /\ [][NextStore]_vars

(***************************************************************************)
(* Properties of the Final Priority Resolver.                              *)
(***************************************************************************)
Levels == {Str("LOW"), Str("MODERATE"), Str("HIGH"), Str("CRITICAL")}

\* severity score of a level name; a text that names no level scores 0
Severity(level) ==
    CASE level \in {Str("CRITICAL"), Str("EXTREME")} -> 5
      [] level = Str("HIGH") -> 4
      [] level = Str("MODERATE") -> 3
      [] level = Str("LOW") -> 2
      [] OTHER -> 0

Greatest(S) == CHOOSE m \in S : \A x \in S : m >= x

\* the resolver of this run has returned
Agent11Called ==
    \E k \in 1..Len(llm_calls) : llm_calls[k].agent = "agent_11"

\* the enrichment call of the resolver of this run failed
Agent11Failed ==
    \E k \in 1..Len(llm_calls) : llm_calls[k] = [agent |-> "agent_11", ok |-> FALSE]

\* the record of this run is the last one of the store file
PersistedThisRun ==
    /\ log_entry # NoEntry
    /\ save_report = "Save successful."
    /\ memory_file.st = "ok"
    /\ Len(memory_file.data) > 0
    /\ memory_file.data[Len(memory_file.data)] = JsonDumpEntry(log_entry)

\* C1: once the resolver has returned, the severity of the final_level
\* written into the report is at least the greatest of the severity of
\* primary_level, the severity of heat_risk and the air quality index,
\* whatever the enrichment call returned.
C1_FinalPriorityMonotonic ==
    Agent11Called =>
        Severity(risk_report_dict.final_level) >=
            Greatest({Severity(risk_report_dict.primary_level),
                      Severity(risk_report_dict.heat_risk),
                      risk_report_dict.air_quality_report.aqi.i})

\* the two primary fetches of the run did not both return data
FetchFailed == ~(weather_json.present /\ forecast_json.present)

\* C2: every step of a run whose weather fetch or forecast fetch failed
\* leaves the store file as it is, runs no stage between the fetch and the
\* wait (no report field, no enrichment call, no log entry, no save, no
\* dispatch), and the step out of FETCHING is the one into SLEEPING.
C2_FailedFetchSkipsCycle ==
    [][(pc \in {"FETCHING", "SLEEPING"} /\ FetchFailed') =>
          /\ pc' \in {"FETCHING", "SLEEPING", "READING_LOCATION", "STOPPED"}
          /\ pc = "FETCHING" => pc' \in {"FETCHING", "SLEEPING", "STOPPED"}
          /\ memory_file' = memory_file
          /\ risk_report_dict' = NoReport
          /\ llm_calls' = <<>>
          /\ log_entry' = NoEntry
          /\ save_report' = ""
          /\ dispatched' = FALSE]_vars

\* a run after a saved one waits with the weather fetched and no forecast
C2_Witness ==
    /\ pc = "SLEEPING"
    /\ weather_json.present
    /\ ~forecast_json.present
    /\ memory_file.st = "ok"
    /\ Len(memory_file.data) = 1
    /\ runs = 2

\* C3: no stage of a run ends the loop: the process is never left by an
\* uncaught exception.
C3_LoopSurvivesEveryStage == pc # "CRASHED"

\* weather and forecast fetched, air quality fetch failed
DegradedInput ==
    /\ weather_json.present
    /\ forecast_json.present
    /\ raw_aqi_data = PyNone

\* C4: in a run whose weather and forecast fetches succeeded and whose air
\* quality fetch failed, the interpreter gives its sentinel report, the
\* run is past the resolver only with a final_level to show for it, and
\* it waits only after it has built its record and entered the save.
C4_DegradedInputSurvives ==
    DegradedInput =>
        /\ pc \notin {"FETCHING", "CLASSIFYING", "ENRICHING", "STOPPED"} =>
               air_quality_report =
                   [aqi |-> PyStr(Str("N/A")), analysis |-> Str("No data"),
                    tomorrow_aqi |-> PyStr(Str("N/A"))]
        /\ pc \notin {"FETCHING", "CLASSIFYING", "ENRICHING", "RESOLVING",
                      "STOPPED"} =>
               risk_report_dict.final_level # <<>>
        /\ pc \in {"DISPATCHING", "SLEEPING"} => log_entry # NoEntry

\* C5: the final_level of a persisted record is one of the four level
\* names and is the numeric floor of the run, whatever text the enrichment
\* call returned.
C5_FinalLevelIsTheFloor ==
    (pc = "DISPATCHING" /\ PersistedThisRun) =>
        /\ log_entry.final_level.s \in Levels
        /\ log_entry.final_level.s = final_level_default

ReferenceScore(level) ==
    CASE level = Str("EXTREME") -> 5
      [] level = Str("HIGH") -> 4
      [] level = Str("MODERATE") -> 3
      [] level = Str("LOW") -> 2
      [] level = Str("NONE") -> 1

ReferenceName(score) ==
    CASE score = 5 -> Str("CRITICAL")
      [] score = 4 -> Str("HIGH")
      [] score = 3 -> Str("MODERATE")
      [] score \in {1, 2} -> Str("LOW")

\* C6: the floor the resolver computes is the name of the greatest of the
\* reference scores of primary_level and heat_risk and the air quality
\* index.
C6_FloorIsReference ==
    final_level_default # <<>> =>
        final_level_default =
            ReferenceName(Greatest(
                {ReferenceScore(risk_report_dict.primary_level),
                 ReferenceScore(risk_report_dict.heat_risk),
                 risk_report_dict.air_quality_report.aqi.i}))

\* wind 25, moderate rain, 22 C, humidity 60, index 2: HIGH, LOW, floor HIGH
C6_Witness ==
    /\ final_level_default = Str("HIGH")
    /\ risk_report_dict.details.wind_speed_ms = 25
    /\ risk_report_dict.details.temp_c = PyInt(220)
    /\ risk_report_dict.details.humidity = PyInt(60)
    /\ risk_report_dict.primary_level = Str("HIGH")
    /\ risk_report_dict.heat_risk = Str("LOW")
    /\ risk_report_dict.air_quality_report.aqi = PyInt(2)

\* C7: when the enrichment call of the resolver fails, final_level is the
\* floor, final_reasoning is the fixed sentence, and the run goes on: the
\* trend and the recommendations are produced and the save is entered.
C7_FailedResolverFallsBackToFloor ==
    Agent11Failed =>
        /\ risk_report_dict.final_level = final_level_default
        /\ risk_report_dict.final_reasoning =
               Str("Error determining final priority. Defaulting to highest local risk.")
        /\ pc = "CRASHED" => log_entry # NoEntry
        /\ log_entry # NoEntry =>
               /\ log_entry.final_level = PyStr(final_level_default)
               /\ log_entry.trend.s # <<>>
               /\ log_entry.recommendations.s # <<>>

\* a run whose resolver fell back to CRITICAL has saved its record
C7_Witness ==
    /\ Agent11Failed
    /\ pc = "DISPATCHING"
    /\ PersistedThisRun
    /\ risk_report_dict.final_level = Str("CRITICAL")
    /\ risk_report_dict.primary_level = Str("LOW")

(***************************************************************************)
(* Properties of the dispatch, the wait and the store.                     *)
(***************************************************************************)
\* C8: the report workflow starts only on MODERATE, HIGH or CRITICAL, and a
\* run that persisted its record and went on to wait has started it
\* exactly when its final_level is one of these.
C8_DispatchFollowsSeverity ==
    /\ dispatched =>
           risk_report_dict.final_level \in
               {Str("MODERATE"), Str("HIGH"), Str("CRITICAL")}
    /\ (pc = "SLEEPING" /\ PersistedThisRun) =>
           (dispatched <=>
               risk_report_dict.final_level \in
                   {Str("MODERATE"), Str("HIGH"), Str("CRITICAL")})
    /\ (pc = "SLEEPING" /\ risk_report_dict.final_level = Str("LOW")) =>
           ~dispatched

\* a run resolved to MODERATE, persisted and dispatched
C8_Witness ==
    /\ pc = "SLEEPING"
    /\ PersistedThisRun
    /\ dispatched
    /\ risk_report_dict.final_level = Str("MODERATE")

\* one time.sleep, the poll after it and the test of the loop
PollStep ==
    /\ pc = "SLEEPING"
    /\ pc' = "READING_LOCATION" \/ polls_left' # polls_left

\* C9, as stated: a poll abandons the wait when the directive reads
\* differently from what it read when the wait began, and otherwise the
\* wait goes on to its full length.
C9_WaitFollowsDirective ==
    [][PollStep =>
          IF get_target_location(control_file) # wait.start
          THEN pc' = "READING_LOCATION" /\ polls_left' = polls_left
          ELSE /\ polls_left' = polls_left - 1
               /\ pc' = "READING_LOCATION" <=> polls_left = 1]_vars

\* C9, amended: a poll abandons the wait exactly when the location it
\* reads differs, letter case ignored, from the location the run was made
\* for; otherwise one poll interval is used up, and the wait ends without
\* a change reported when none is left.
C9_WaitFollowsRunLocation ==
    [][PollStep =>
          IF Lower(get_target_location(control_file)) # Lower(CITY_NAME)
          THEN /\ pc' = "READING_LOCATION"
               /\ polls_left' = polls_left
               /\ change_detected'
          ELSE /\ polls_left' = polls_left - 1
               /\ pc' = "READING_LOCATION" <=> polls_left = 1
               /\ pc' = "READING_LOCATION" => ~change_detected']_vars

\* the directive was rewritten during the wait and the wait was abandoned
C9_Witness ==
    /\ pc = "READING_LOCATION"
    /\ change_detected
    /\ wait.changed
    /\ polls_left > 0
    /\ Lower(wait.start) = Lower(CITY_NAME)

\* C10: after calls of save_to_memory_bank that all reported success the
\* store file reads back as the saved entries, in the order of the calls
\* and field by field; a call writes what it loaded with its entry added
\* at the end.
C10_AppendOnlyRoundTrip ==
    /\ (pc = "DISPATCHING" /\ Len(saved) = runs) =>
           /\ memory_file.st = "ok"
           /\ JsonLoadStore(memory_file.data) = saved
    /\ pc = "SAVE_OPEN" =>
           memory = Append(JsonLoadStore(memory_file.data), log_entry)
    /\ (pc = "DISPATCHING" /\ save_report = "Save successful.") =>
           /\ memory_file.st = "ok"
           /\ JsonLoadStore(memory_file.data) = memory
           /\ memory[Len(memory)] = log_entry

\* three saves of different entries, all successful
C10_Witness ==
    /\ pc = "DISPATCHING"
    /\ runs = 3
    /\ Len(saved) = 3
    /\ saved[1] # saved[2]
    /\ saved[2] # saved[3]
    /\ memory_file.st = "ok"
    /\ Len(memory_file.data) = 3

(***************************************************************************)
(* Properties of the two files under a crash and under a concurrent read.  *)
(***************************************************************************)
\* C11: when the process has ended (by the interrupt or by an uncaught
\* exception) after at least one record was saved, the store file parses
\* and holds the records saved so far: it is never left empty or cut short
\* by the write that was under way.
C11_CrashLeavesPriorContent ==
    (pc \in {"STOPPED", "CRASHED"} /\ saved # <<>>) =>
        /\ memory_file.st = "ok"
        /\ JsonLoadStore(memory_file.data) = saved

\* get_target_location() is called: at the start of a run or at a poll
ReadsDirective ==
    \/ pc = "READING_LOCATION" /\ pc' = "FETCHING"
    \/ PollStep

\* C12: whenever the orchestrator reads the directive file while the
\* dashboard rewrites it, the file it opens holds a complete content, the
\* old one or the new one, never the truncated file between the two.
C12_ReaderSeesWholeFile ==
    [][ReadsDirective => control_file.st # "corrupt"]_vars

(***************************************************************************)
(* The classifiers and the aggregator taken alone: a run that starts with  *)
(* nothing stored, at the stage that calls them, on inputs of every kind.  *)
(***************************************************************************)
StartOfRun ==
    /\ runs = 1
    /\ run_timestamp = IsoFormat(1)
    /\ CITY_NAME = DEFAULT_LOCATION
    /\ control_file = AbsentFile
    /\ writer = IdleWriter
    /\ writes = 0
    /\ memory_file = AbsentFile
    /\ raw_aqi_data = PyNone
    /\ advanced_fetch_data = PyNone
    /\ heat_risk_report = NoHeatReport
    /\ air_quality_report = NoAirReport
    /\ final_risk_result = <<>>
    /\ final_level_default = <<>>
    /\ action_list = <<>>
    /\ log_entry = NoEntry
    /\ memory = <<>>
    /\ saved = <<>>
    /\ save_report = ""
    /\ dispatched = FALSE
    /\ polls_left = 0
    /\ change_detected = FALSE
    /\ llm_calls = <<>>
    /\ trend_prompt = NoPrompt
    /\ wait = NoWait

\* the wind, weather and main sections of a snapshot, present or missing,
\* the weather list also present and empty
ClassifySnapshots ==
    {[present |-> TRUE, wind |-> w, weather |-> d[1], description |-> d[2],
      temp |-> m[1], humidity |-> m[2]] :
        w \in {PyNone} \cup {PyInt(k) : k \in {0, 15, 16, 20, 21, 25}},
        d \in {<<"missing", <<>>>>,
               <<"empty", <<>>>>,
               <<"ok", <<"clear", " ", "sky">>>>,
               <<"ok", <<"light", " ", "rain">>>>,
               <<"ok", <<"thunderstorm">>>>,
               <<"ok", <<"squalls">>>>,
               <<"ok", <<"thunderstorm", " ", "with", " ", "light", " ", "rain">>>>},
        m \in {<<PyNone, PyNone>>, <<PyInt(220), PyInt(60)>>,
               <<PyInt(350), PyInt(70)>>}}

InitClassify ==
    /\ pc = "CLASSIFYING"
    /\ weather_json \in ClassifySnapshots
    /\ forecast_json = [present |-> TRUE, daily |-> <<>>]
    /\ forecast_list = <<>>
    /\ risk_report_dict = NoReport
    /\ StartOfRun

NextClassify == Classifying

SpecClassify == InitClassify /\ [][NextClassify]_vars

\* temperature and humidity as the details of the report may hold them
HeatTemperatures ==
    {PyNone, PyStr(Str("N/A"))} \cup
    {PyInt(k) : k \in {-100, 0, 150, 220, 250, 266, 267, 280, 300, 350, 400}}

HeatHumidities ==
    {PyNone, PyStr(Str("N/A"))} \cup {PyInt(k) : k \in {0, 10, 40, 60, 90, 100}}

InitHeat ==
    /\ pc = "CLASSIFYING_HEAT"
    /\ weather_json = RainWind
    /\ forecast_json = [present |-> TRUE, daily |-> <<>>]
    /\ forecast_list = <<>>
    /\ \E t \in HeatTemperatures, h \in HeatHumidities :
          risk_report_dict =
              [NoReport EXCEPT !.details.temp_c = t, !.details.humidity = h]
    /\ StartOfRun

\* temp_c and humidity are taken from the details of the report and
\* agent_2_7_heat_classifier is called on them
HeatClassifying ==
    /\ pc = "CLASSIFYING_HEAT"
    /\ heat_risk_report' =
           agent_2_7_heat_classifier(risk_report_dict.details.temp_c,
                                     risk_report_dict.details.humidity)
    /\ pc' = "ENRICHING"
    /\ UNCHANGED <<runs, run_timestamp, CITY_NAME, fileVars, fetchVars,
                   risk_report_dict, air_quality_report, final_risk_result,
                   final_level_default, action_list, llm_calls, trend_prompt,
                   saveVars,
                   dispatched, sleepVars>>

NextHeat == HeatClassifying

SpecHeat == InitHeat /\ [][NextHeat]_vars

MaxSamples == 4     \* samples in a fetched forecast list

\* three-hourly samples of three days: one late on the first day, four on
\* the second, one on the third
ForecastSamples ==
    {[dt |-> 21, temp_min |-> -20, temp_max |-> 30, icon |-> "04n", pop |-> PyNone],
     [dt |-> 24, temp_min |-> 200, temp_max |-> 250, icon |-> "10d", pop |-> PyInt(30)],
     [dt |-> 27, temp_min |-> 180, temp_max |-> 220, icon |-> "01d", pop |-> PyNone],
     [dt |-> 30, temp_min |-> 210, temp_max |-> 280, icon |-> "01d", pop |-> PyInt(80)],
     [dt |-> 33, temp_min |-> 190, temp_max |-> 190, icon |-> "10d", pop |-> PyInt(0)],
     [dt |-> 48, temp_min |-> 230, temp_max |-> 300, icon |-> "10d", pop |-> PyInt(10)]}

\* the lists a fetch may return: samples of different times, in any order
ForecastLists ==
    {q \in UNION {[1..n -> ForecastSamples] : n \in 0..MaxSamples} :
        \A i, j \in 1..Len(q) : i # j => q[i] # q[j]}

InitForecast ==
    /\ pc = "FETCHING"
    /\ weather_json = NoSnapshot
    /\ forecast_json = NoForecast
    /\ forecast_list = <<>>
    /\ risk_report_dict = NoReport
    /\ StartOfRun

NextForecast ==
    Fetching(LoopSnapshots, ForecastLists, LoopAqis, LoopTomorrows)

SpecForecast == InitForecast /\ [][NextForecast]_vars

\* run_full_analysis of agents.py: its two fetches
agents_fetching(snapshots, forecasts) ==
    /\ pc = "FETCHING"
    /\ \E w \in snapshots \cup {NoSnapshot},
          f \in {[present |-> FALSE, list |-> <<>>]} \cup
                {[present |-> TRUE, list |-> l] : l \in forecasts} :
          /\ weather_json' = w
          /\ forecast_list' = f.list
          /\ forecast_json' =
                 IF f.present
                 THEN [present |-> TRUE,
                       daily |-> agents_agent_1_5_forecast_processor(f.list)]
                 ELSE NoForecast
          /\ pc' = IF w.present THEN "CLASSIFYING" ELSE "RETURNED"
    /\ UNCHANGED <<runs, run_timestamp, CITY_NAME, fileVars, raw_aqi_data,
                   advanced_fetch_data, reportVars, saveVars, dispatched,
                   sleepVars>>

NextAgentsForecast == agents_fetching(LoopSnapshots, ForecastLists)

SpecAgentsForecast == InitForecast /\ [][NextAgentsForecast]_vars

(***************************************************************************)
(* Properties of the Risk Classifier and of the Heat Stress Classifier.    *)
(***************************************************************************)
\* the description of the snapshot holds the word
Mentions(word) ==
    /\ weather_json.weather = "ok"
    /\ \E k \in 1..Len(weather_json.description) :
           weather_json.description[k] = word

\* the wind speed of the snapshot, 0 when it has none
WindOf == IF weather_json.wind = PyNone THEN 0 ELSE weather_json.wind.i

\* C13: the level is that of the first rule that applies, in the order:
\* thunderstorm or squalls (HIGH, with the thunderstorm reasoning, at any
\* wind), rain with wind above 15 (HIGH), rain (MODERATE), wind above 20
\* (HIGH), wind above 15 (MODERATE), otherwise LOW; wind of exactly 15 or
\* 20 does not pass the threshold.
C13_FirstMatchDecisionList ==
    pc = "ENRICHING" =>
        LET level == risk_report_dict.primary_level
            storm == Mentions("thunderstorm") \/ Mentions("squalls")
            rain == Mentions("rain")
        IN  /\ storm =>
                   /\ level = Str("HIGH")
                   /\ risk_report_dict.reasoning =
                          Str("Active thunderstorm or squalls reported.")
            /\ (~storm /\ rain /\ WindOf > 15) =>
                   /\ level = Str("HIGH")
                   /\ risk_report_dict.reasoning =
                          Str("Heavy rain combined with high wind speed.")
            /\ (~storm /\ rain /\ WindOf <= 15) => level = Str("MODERATE")
            /\ (~storm /\ ~rain /\ WindOf > 20) => level = Str("HIGH")
            /\ (~storm /\ ~rain /\ WindOf > 15 /\ WindOf <= 20) =>
                   level = Str("MODERATE")
            /\ (~storm /\ ~rain /\ WindOf <= 15) => level = Str("LOW")

\* a thunderstorm at wind 25 is HIGH for the thunderstorm, not for the wind
C13_Witness ==
    /\ pc = "ENRICHING"
    /\ weather_json.description = <<"thunderstorm">>
    /\ weather_json.wind = PyInt(25)
    /\ risk_report_dict.primary_level = Str("HIGH")
    /\ risk_report_dict.reasoning = Str("Active thunderstorm or squalls reported.")

\* C14: on every snapshot the classifier returns a report and does not
\* raise; a missing wind reads 0, a missing or empty weather list reads
\* 'unknown', a missing temperature reads 0.
C14_ClassifierIsTotal ==
    /\ pc # "CRASHED"
    /\ pc = "ENRICHING" =>
           /\ risk_report_dict.primary_level \in
                  {Str("LOW"), Str("MODERATE"), Str("HIGH")}
           /\ weather_json.wind = PyNone =>
                  risk_report_dict.details.wind_speed_ms = 0
           /\ weather_json.weather # "ok" =>
                  risk_report_dict.details.description = Str("unknown")
           /\ weather_json.temp = PyNone =>
                  risk_report_dict.details.temp_c = PyInt(0)

\* the heat classifier was called on a temperature or a humidity that is
\* no number
HeatInputInvalid ==
    /\ pc = "ENRICHING"
    /\ \/ ~IsNumber(risk_report_dict.details.temp_c)
       \/ ~IsNumber(risk_report_dict.details.humidity)

C16_NoAdjustmentBelow80F ==
    (/\ pc = "ENRICHING"
     /\ IsNumber(risk_report_dict.details.temp_c)
     /\ IsNumber(risk_report_dict.details.humidity)) =>
        /\ 9 * risk_report_dict.details.temp_c.i < 2400 =>
               /\ heat_risk_report.heat_index_c = risk_report_dict.details.temp_c
               /\ heat_risk_report.heat_risk = Str("LOW")
        /\ (/\ risk_report_dict.details.temp_c = PyInt(267)
            /\ risk_report_dict.details.humidity = PyInt(40)) =>
               heat_risk_report.heat_index_c = PyInt(267)

\* 26.7 C at humidity 40
C16_Witness ==
    /\ pc = "ENRICHING"
    /\ risk_report_dict.details.temp_c = PyInt(267)
    /\ risk_report_dict.details.humidity = PyInt(40)
    /\ heat_risk_report.heat_index_c = PyInt(267)
    /\ heat_risk_report.heat_risk = Str("LOW")

(***************************************************************************)
(* Properties of the Forecast Aggregator, stated on the samples fetched    *)
(* (forecast_list) and the summaries made of them (forecast_json.daily).   *)
(***************************************************************************)
Least(S) == CHOOSE m \in S : \A x \in S : m <= x

\* the calendar dates of the samples fetched
DatesFetched == {DateKey(forecast_list[k].dt) : k \in 1..Len(forecast_list)}

\* the positions, in input order, of the samples of a date
SamplesOf(date) ==
    {k \in 1..Len(forecast_list) : DateKey(forecast_list[k].dt) = date}

\* the precipitation probability of a sample, 0 when it has none
PopOf(item) == IF item.pop = PyNone THEN 0 ELSE item.pop.i

\* how often a code occurs among the samples of a date up to position n
SeenUpTo(date, icon, n) ==
    Cardinality({k \in SamplesOf(date) : k <= n /\ forecast_list[k].icon = icon})

\* how often a code occurs among the samples of a date
Frequency(date, icon) == SeenUpTo(date, icon, Len(forecast_list))

\* the highest frequency of a code among the samples of a date
WinningFrequency(date) ==
    Greatest({Frequency(date, forecast_list[k].icon) : k \in SamplesOf(date)})

\* the codes of a date that have the highest frequency
MostFrequent(date) ==
    {forecast_list[k].icon : k \in
        {j \in SamplesOf(date) :
            Frequency(date, forecast_list[j].icon) = WinningFrequency(date)}}

\* the position at which a code reaches the winning frequency
ReachedAt(date, icon) ==
    Least({n \in SamplesOf(date) : SeenUpTo(date, icon, n) = WinningFrequency(date)})

\* the position at which a code is first seen
FirstSeenAt(date, icon) ==
    Least({n \in SamplesOf(date) : forecast_list[n].icon = icon})

\* C17: for samples in any order there is exactly one summary for each
\* calendar date of the input, and the summaries are strictly ascending by
\* their anchor timestamp.
C17_OnePerDateAscending ==
    forecast_json.present =>
        LET daily == forecast_json.daily
        IN  /\ Len(daily) = Cardinality(DatesFetched)
            /\ {DateKey(daily[k].dt) : k \in 1..Len(daily)} = DatesFetched
            /\ \A i, j \in 1..Len(daily) : i < j => daily[i].dt < daily[j].dt

\* C18: the summary of a date holds the minimum of the temp_min of its
\* samples, the maximum of their temp_max, the maximum of their
\* precipitation probabilities (0 for a sample without one) and, as
\* anchor, the timestamp of the first of them in input order.
C18_SummaryReducesTheDay ==
    forecast_json.present =>
        /\ \A date \in DatesFetched :
               \E k \in 1..Len(forecast_json.daily) :
                   DateKey(forecast_json.daily[k].dt) = date
        /\ \A k \in 1..Len(forecast_json.daily) :
               LET day == forecast_json.daily[k]
                   of == SamplesOf(DateKey(day.dt))
               IN  /\ day.temp_min = Least({forecast_list[n].temp_min : n \in of})
                   /\ day.temp_max = Greatest({forecast_list[n].temp_max : n \in of})
                   /\ day.pop = Greatest({PopOf(forecast_list[n]) : n \in of})
                   /\ day.dt = forecast_list[Least(of)].dt

\* two dates out of order; the first date's samples arrive as 30, 27, 24
C18_Witness ==
    /\ forecast_json.present
    /\ Len(forecast_list) = 4
    /\ forecast_list[1].dt = 48
    /\ forecast_list[2].dt = 30
    /\ forecast_list[3].dt = 27
    /\ forecast_list[4].dt = 24
    /\ Len(forecast_json.daily) = 2
    /\ forecast_json.daily[1].dt = 30
    /\ forecast_json.daily[1].temp_min = 180
    /\ forecast_json.daily[1].temp_max = 280
    /\ forecast_json.daily[1].pop = 80

C20_IconFirstToReachWinningCount ==
    \A k \in 1..Len(forecast_json.daily) :
        LET date == DateKey(forecast_json.daily[k].dt)
            icon == forecast_json.daily[k].icon
        IN  /\ icon \in MostFrequent(date)
            /\ \A other \in MostFrequent(date) :
                   ReachedAt(date, icon) <= ReachedAt(date, other)

\* C20, amended: the icon of a day is a most frequent code of the day,
\* and of several such codes it is the one that occurs first among the
\* day's samples in input order.
C20_IconFirstSeenAmongMostFrequent ==
    \A k \in 1..Len(forecast_json.daily) :
        LET date == DateKey(forecast_json.daily[k].dt)
            icon == forecast_json.daily[k].icon
        IN  /\ icon \in MostFrequent(date)
            /\ \A other \in MostFrequent(date) :
                   FirstSeenAt(date, icon) <= FirstSeenAt(date, other)

\* a day of 10d, 01d, 01d, 10d: both codes occur twice, 01d reaches two
\* first, 10d is seen first
C20_Witness ==
    /\ forecast_json.present
    /\ Len(forecast_list) = 4
    /\ forecast_list[1].dt = 24
    /\ forecast_list[2].dt = 27
    /\ forecast_list[3].dt = 30
    /\ forecast_list[4].dt = 33
    /\ Len(forecast_json.daily) = 1
    /\ forecast_json.daily[1].icon = "10d"

(***************************************************************************)
(* Properties of the enrichment stages.                                    *)
(***************************************************************************)
\* the agent made an enrichment call in this run
CalledBy(agent) ==
    \E k \in 1..Len(llm_calls) : llm_calls[k].agent = agent

\* the agent made an enrichment call in this run and the call failed
FailedBy(agent) ==
    \E k \in 1..Len(llm_calls) : llm_calls[k] = [agent |-> agent, ok |-> FALSE]

\* how many enrichment calls the agent made in this run
CallsBy(agent) ==
    Cardinality({k \in 1..Len(llm_calls) : llm_calls[k].agent = agent})

\* C21: once the Air Quality Interpreter has returned on a raw index of
\* 1..5, the aqi of its report (and of the Risk Report) is the raw index,
\* whatever the enrichment call returned; when the call failed the
\* narrative is 'Error analyzing air quality.' and the aqi is still the
\* number.
C21_IndexKept ==
    (air_quality_report # NoAirReport /\ raw_aqi_data # PyNone) =>
        /\ air_quality_report.aqi = raw_aqi_data
        /\ risk_report_dict.air_quality_report.aqi = raw_aqi_data
        /\ FailedBy("agent_2_5") =>
               /\ air_quality_report.analysis = Str("Error analyzing air quality.")
               /\ IsNumber(air_quality_report.aqi)
               /\ air_quality_report.aqi.i \in 1..5

\* index 4 and a failed enrichment call
C21_Witness ==
    /\ raw_aqi_data = PyInt(4)
    /\ FailedBy("agent_2_5")
    /\ air_quality_report.aqi = PyInt(4)
    /\ air_quality_report.analysis = Str("Error analyzing air quality.")

(***************************************************************************)
(* The Trend Analyzer taken alone: a run that has resolved its final       *)
(* level, on stores of every kind.                                         *)
(***************************************************************************)
MaxStore == 6       \* records in the store read by the Trend Analyzer
MaxForeign == 2     \* of them, records that are not plain records of the location

\* the city of a stored record: the current location, the same in another
\* letter case, another location, none; or the current location without
\* a timestamp
RecordKinds == {"here", "HERE", "other", "nocity", "notime"}

\* the n-th record of a store
StoredRecord(n, kind) ==
    [PastEntry(n) EXCEPT
        !.city = CASE kind = "HERE" -> PyStr(Str("kerala,in"))
                   [] kind = "other" -> PyStr(Str("Paris,FR"))
                   [] kind = "nocity" -> PyNone
                   [] OTHER -> @,
        !.timestamp = IF kind = "notime" THEN PyNone ELSE @]

\* the store files the analyzer may find: none, an unparseable one, and
\* stores of up to MaxStore records of which up to MaxForeign are not
\* plain records of the current location
TrendStores ==
    {AbsentFile, CorruptFile} \cup
    {OkFile(JsonDumpStore([n \in 1..Len(kinds) |-> StoredRecord(n, kinds[n])])) :
        kinds \in {q \in UNION {[1..n -> RecordKinds] : n \in 0..MaxStore} :
                      Cardinality({n \in 1..Len(q) : q[n] # "here"}) <= MaxForeign}}

InitTrend ==
    /\ pc = "TREND"
    /\ memory_file \in TrendStores
    /\ runs = MaxStore + 1
    /\ run_timestamp = IsoFormat(MaxStore + 1)
    /\ CITY_NAME = DEFAULT_LOCATION
    /\ control_file = AbsentFile
    /\ writer = IdleWriter
    /\ writes = 0
    /\ weather_json = RainWind
    /\ forecast_json = [present |-> TRUE, daily |-> <<>>]
    /\ forecast_list = <<>>
    /\ raw_aqi_data = PyInt(2)
    /\ advanced_fetch_data = PyStr(Str("N/A"))
    /\ risk_report_dict = [PastReport EXCEPT !.trend = <<>>]
    /\ heat_risk_report = PastReport.heat_risk_report
    /\ air_quality_report = PastReport.air_quality_report
    /\ final_risk_result = agent_11_alert_prioritizer(PastReport, Failed)
    /\ final_level_default = PriorityFloor(PastReport)
    /\ action_list = <<>>
    /\ log_entry = NoEntry
    /\ memory = <<>>
    /\ saved = <<>>
    /\ save_report = ""
    /\ dispatched = FALSE
    /\ polls_left = 0
    /\ change_detected = FALSE
    /\ llm_calls = <<[agent |-> "agent_2_5", ok |-> FALSE],
                     [agent |-> "agent_11", ok |-> FALSE]>>
    /\ trend_prompt = NoPrompt
    /\ wait = NoWait

NextTrend == Trending(TrendReplies)

SpecTrend == InitTrend /\ [][NextTrend]_vars

(***************************************************************************)
(* Properties of the Trend Analyzer.                                       *)
(***************************************************************************)
\* the records of the store as the analyzer finds it, none when the file
\* is absent or does not parse
StoreRecords ==
    IF memory_file.st = "ok" THEN JsonLoadStore(memory_file.data) ELSE <<>>

\* the positions in the store of the records of the current location
Matching ==
    {k \in 1..Len(StoreRecords) :
        /\ StoreRecords[k].city.t = "str"
        /\ Lower(StoreRecords[k].city.s) = Lower(CITY_NAME)}

\* the last five of them
Window == {p \in Matching : Cardinality({q \in Matching : q > p}) < 5}

\* the i-th position of the window, oldest first
WindowAt(i) == CHOOSE p \in Window : Cardinality({q \in Window : q < p}) = i - 1

\* the analyzer has ended, by a return or by an exception
TrendEnded == pc \in {"RECOMMENDING", "CRASHED"}

\* C22: with fewer than 2 records of the current location in the store
\* (none in an absent or unparseable store), whatever else the store
\* holds, the analyzer returns the insufficient-history sentinel and makes
\* no enrichment call; with 2 or more it makes exactly one call.
C22_CallOnlyWithTwoMatching ==
    TrendEnded =>
        /\ Cardinality(Matching) < 2 =>
               /\ pc = "RECOMMENDING"
               /\ risk_report_dict.trend =
                      Str("No comprehensive trend data available.")
               /\ CallsBy("agent_5") = 0
        /\ Cardinality(Matching) >= 2 => CallsBy("agent_5") = 1

\* C27: the prompt of the analyzer's call lists the last min(5, k) of the
\* k records of the current location, oldest first, each with its time,
\* final level and air quality index, and then the values of the current
\* run; the current run is not among the records listed.
C27_DigestOfLastFive ==
    (pc = "RECOMMENDING" /\ CalledBy("agent_5")) =>
        /\ Len(trend_prompt.history) = Cardinality(Window)
        /\ Cardinality(Window) =
               IF Cardinality(Matching) < 5 THEN Cardinality(Matching) ELSE 5
        /\ \A i \in 1..Len(trend_prompt.history) :
               LET record == StoreRecords[WindowAt(i)]
               IN  /\ <<"2025-11-01", "T">> \o trend_prompt.history[i].time =
                          record.timestamp.s
                   /\ trend_prompt.history[i].lvl = record.final_level
                   /\ trend_prompt.history[i].aqi = record.aqi
                   /\ record.timestamp.s # run_timestamp
        /\ trend_prompt.newest.lvl = risk_report_dict.final_level
        /\ trend_prompt.newest.aqi = risk_report_dict.air_quality_report.aqi
        /\ log_entry = NoEntry

\* six records of the current location, one of them in another letter
\* case: the prompt lists the second to the sixth
C27_Witness ==
    /\ pc = "RECOMMENDING"
    /\ CalledBy("agent_5")
    /\ Cardinality(Matching) = 6
    /\ \E k \in Matching : StoreRecords[k].city = PyStr(Str("kerala,in"))
    /\ Len(trend_prompt.history) = 5
    /\ trend_prompt.history[1].time = <<"2">>
    /\ trend_prompt.history[5].time = <<"6">>

\* C28: on every store and every outcome of the enrichment call the
\* analyzer returns to the orchestrator, with the trend text, the
\* insufficient-history sentinel or the error sentinel.
C28_TrendAlwaysReturns ==
    /\ pc # "CRASHED"
    /\ pc = "RECOMMENDING" =>
           risk_report_dict.trend \in
               {Str("No comprehensive trend data available."),
                Str("Error analyzing trend.")} \cup
               {Strip(llm.text) : llm \in TrendReplies}

(***************************************************************************)
(* Properties of the Recommendation Synthesizer.                           *)
(***************************************************************************)
\* the three conditions of the short-circuit, on the reports of the run
AllCalm ==
    /\ risk_report_dict.primary_level = Str("LOW")
    /\ heat_risk_report.heat_risk = Str("LOW")
    /\ IsNumber(air_quality_report.aqi)
    /\ air_quality_report.aqi.i <= 2

\* C23: the synthesizer returns; it returns the calm-conditions string
\* without an enrichment call exactly when primary_level is LOW, heat_risk
\* is LOW and the air quality index is at most 2; otherwise it makes one
\* call and returns the reply, or the error sentinel when the call failed.
C23_ShortCircuitExactlyWhenCalm ==
    [][pc = "RECOMMENDING" =>
          /\ pc' # "CRASHED"
          /\ pc' = "PERSISTING" =>
                 IF AllCalm
                 THEN /\ llm_calls' = llm_calls
                      /\ action_list' =
                             Str("Conditions are stable, air quality is good, and heat risk is minimal. No special actions required.")
                 ELSE /\ Len(llm_calls') = Len(llm_calls) + 1
                      /\ llm_calls'[Len(llm_calls')].agent = "agent_3"
                      /\ IF llm_calls'[Len(llm_calls')].ok
                         THEN action_list' \in {llm.text : llm \in ActionReplies}
                         ELSE action_list' = Str("Error generating recommendations.")]_vars

\* calm weather and mild heat with index 3: the call is made
C23_Witness ==
    /\ pc = "PERSISTING"
    /\ risk_report_dict.primary_level = Str("LOW")
    /\ heat_risk_report.heat_risk = Str("LOW")
    /\ air_quality_report.aqi = PyInt(3)
    /\ CallsBy("agent_3") = 1
    /\ action_list = <<"- Stay indoors.">>

(***************************************************************************)
(* Properties of the loop as a whole.                                      *)
(***************************************************************************)
\* the positions inside save_to_memory_bank
Saving ==
    {"PERSISTING", "SAVE_CREATE_DUMP", "SAVE_LOAD", "SAVE_OPEN", "SAVE_DUMP",
     "SAVE_RESET_OPEN", "SAVE_RESET_DUMP"}

\* the stage is entered from the one before it (a step of the dashboard
\* leaves the position as it is)
Enters(stage, before) == (pc' = stage /\ pc # stage) => pc \in before

\* C24: the resolver starts only with the outputs of the Risk Classifier,
\* the Heat Classifier and the Air Quality Interpreter at hand; the Trend
\* Analyzer only with final_level set; the Recommendation Synthesizer only
\* with the trend set; the store is written only after all of these;
\* dispatch comes only after save_to_memory_bank; and READING_LOCATION is
\* entered only from SLEEPING.
C24_StagesInOrder ==
    [][/\ Enters("RESOLVING", {"ENRICHING"})
       /\ pc' = "RESOLVING" =>
              /\ risk_report_dict'.primary_level # <<>>
              /\ heat_risk_report' # NoHeatReport
              /\ air_quality_report' # NoAirReport
       /\ Enters("TREND", {"RESOLVING"})
       /\ pc' = "TREND" =>
              /\ risk_report_dict'.final_level # <<>>
              /\ risk_report_dict'.final_level = ParseLevel(final_risk_result')
       /\ Enters("RECOMMENDING", {"TREND"})
       /\ pc' = "RECOMMENDING" => risk_report_dict'.trend # <<>>
       /\ Enters("PERSISTING", {"RECOMMENDING"})
       /\ memory_file' # memory_file =>
              /\ pc \in Saving
              /\ log_entry # NoEntry
              /\ log_entry.final_level = PyStr(risk_report_dict.final_level)
              /\ log_entry.trend = PyStr(risk_report_dict.trend)
              /\ risk_report_dict.final_level # <<>>
              /\ risk_report_dict.trend # <<>>
              /\ ~dispatched
       /\ Enters("DISPATCHING", Saving)
       /\ dispatched' # dispatched => (pc = "DISPATCHING" \/ pc = "READING_LOCATION")
       /\ Enters("SLEEPING", {"DISPATCHING", "FETCHING"})
       /\ Enters("READING_LOCATION", {"SLEEPING"})]_vars

\* the second run has been saved and dispatched and waits
C24_Witness ==
    /\ pc = "SLEEPING"
    /\ runs = 2
    /\ Len(saved) = 2
    /\ save_report = "Save successful."
    /\ dispatched
    /\ risk_report_dict.trend # <<>>

(***************************************************************************)
(* The reading of the directive taken alone: the loop without its          *)
(* pipeline (every fetch ends the run or leads to it), on directive files  *)
(* of every kind, with the dashboard writing.                              *)
(***************************************************************************)
\* the control file: absent, unparseable, not a dict, without a location,
\* with an empty location, with a location
DirectiveFiles ==
    {AbsentFile, CorruptFile, OkFile(<<>>), OkFile(<<JsonDump(PyNone)>>),
     OkFile(ControlContent(<<>>))} \cup
    {OkFile(ControlContent(loc)) : loc \in Locations}

InitDirective ==
    /\ pc = "READING_LOCATION"
    /\ runs = 0
    /\ run_timestamp = <<>>
    /\ CITY_NAME = <<>>
    /\ control_file \in DirectiveFiles
    /\ writer = IdleWriter
    /\ writes = 0
    /\ memory_file = AbsentFile
    /\ weather_json = NoSnapshot
    /\ forecast_json = NoForecast
    /\ forecast_list = <<>>
    /\ raw_aqi_data = PyNone
    /\ advanced_fetch_data = PyNone
    /\ risk_report_dict = NoReport
    /\ heat_risk_report = NoHeatReport
    /\ air_quality_report = NoAirReport
    /\ final_risk_result = <<>>
    /\ final_level_default = <<>>
    /\ action_list = <<>>
    /\ log_entry = NoEntry
    /\ memory = <<>>
    /\ saved = <<>>
    /\ save_report = ""
    /\ dispatched = FALSE
    /\ polls_left = 0
    /\ change_detected = FALSE
    /\ llm_calls = <<>>
    /\ trend_prompt = NoPrompt
    /\ wait = NoWait

NextDirective ==
    \/ ReadLocation
    \/ Fetching(LoopSnapshots, LoopForecasts, LoopAqis, LoopTomorrows)
    \/ Sleeping
    \/ WriterOpen
    \/ WriterDump

SpecDirective == InitDirective /\ [][NextDirective]_vars

\* the location the directive file holds, the default when it holds none
DirectiveLocation ==
    IF /\ control_file.st = "ok"
       /\ Len(control_file.data) = 1
       /\ control_file.data[1].j = "string"
       /\ control_file.data[1].str # <<>>
    THEN control_file.data[1].str
    ELSE <<"Kerala,IN">>

\* C25: READING_LOCATION is left for FETCHING only, with the location the
\* file holds, and with 'Kerala,IN' when the file is absent, unparseable,
\* not a record or without a non-empty location; and it can always be
\* left while runs remain.
C25_ReadingLocationNeverHalts ==
    /\ [][(pc = "READING_LOCATION" /\ pc' # "READING_LOCATION") =>
             /\ pc' = "FETCHING"
             /\ CITY_NAME' = DirectiveLocation]_vars
    /\ [](pc = "READING_LOCATION" /\ runs < MaxRuns => ENABLED ReadLocation)

\* a directive that is not a record: the run is made for the default
C25_Witness ==
    /\ pc = "FETCHING"
    /\ control_file = OkFile(<<>>)
    /\ CITY_NAME = <<"Kerala,IN">>

\* C26: a store that does not parse when the record is saved is replaced
\* by a store holding exactly the new record; and a failed write, at the
\* creation of the file, at its rewrite or at the rewrite after
\* corruption, is reported and leaves the loop running: nothing inside
\* save_to_memory_bank ends the process.
C26_PersistenceFailuresAbsorbed ==
    [][/\ pc \in Saving => pc' # "CRASHED"
       /\ (pc = "SAVE_RESET_DUMP" /\ pc' = "DISPATCHING") =>
              memory_file' = OkFile(JsonDumpStore(<<log_entry>>))
       /\ (pc \in Saving /\ pc' = "DISPATCHING" /\ memory_file' = memory_file) =>
              save_report' = "ERROR: Failed to save to memory"]_vars

(***************************************************************************)
(* Properties of the wait and the directive.                               *)
(***************************************************************************)
\* the directive was changed while the run was executing: when the wait
\* began it read differently, letter case ignored, from the location of
\* the run, and it still reads so
ChangedDuringRun ==
    /\ wait # NoWait
    /\ Lower(wait.start) # Lower(CITY_NAME)
    /\ get_target_location(control_file) = wait.start

C30_AbortOnlyOnRealChange ==
    [][(PollStep /\ change_detected' /\ polls_left' = polls_left) =>
          /\ control_file.st # "corrupt"
          /\ Lower(DirectiveLocation) # Lower(CITY_NAME)]_vars

====
